---- MODULE Spec2Model ----
(***************************************************************************)
(* Adaptive Clima (savaspar/ha_adaptive_clima): the whole-house            *)
(* coordinator, its thermostat entity and the control passes.              *)
(*                                                                         *)
(* Temperatures are integers in quarter degrees (84 = 21.0), so that every *)
(* value the code computes with step 0.5 or 1.0, limit 3.0 and unwind 2.0  *)
(* is a dyadic rational and Python's float arithmetic on it is exact.      *)
(* A task of the event loop is suspended at each await of a service call   *)
(* (an actuator write); the code between two writes runs atomically.       *)
(***************************************************************************)
EXTENDS Integers, Sequences, FiniteSets, TLC

(* ------------------------------ bounds -------------------------------- *)
MaxTasks == 2
MaxTime == 2

(* ------------------------- program constants -------------------------- *)
NoneVal == -1
NullZone == "null"
SUSPEND_ZONE_ID == "__suspend__"
DEFAULT_HOUSE_TARGET == 84
DEFAULT_DEADBAND == 2
DEFAULT_MIN_CHANGE_SECONDS == 2
DEFAULT_SETPOINT_LIMIT == 12
DEFAULT_UNWIND_THRESHOLD == 8
DEFAULT_ACTIVE_ZONE_OFFSET == 12
DEFAULT_STEP == 2
DEFAULT_MIN_SETPOINT == 64
DEFAULT_MAX_SETPOINT == 120
GainDen == 2

ACTUATOR_CLIMATE == "climate"
ACTUATOR_NUMBER == "number"
ACTUATOR_SWITCH == "switch"

(* ------------------------------ numerics ------------------------------ *)
Abs(x) == IF x < 0 THEN 0 - x ELSE x
Max2(a, b) == IF a >= b THEN a ELSE b
Min2(a, b) == IF a <= b THEN a ELSE b

\* max(lo, min(hi, v))
Clamp(v, lo, hi) == Max2(lo, Min2(hi, v))

\* Python's round() of the rational n/m (m > 0): to nearest, ties to even.
RoundHalfEven(n, m) ==
    LET q == n \div m
        r == n % m
    IN  IF 2 * r < m THEN q
        ELSE IF 2 * r > m THEN q + 1
        ELSE IF q % 2 = 0 THEN q ELSE q + 1

\* _round_to_step of the rational n/d: round(round(v / step) * step, 2).
RoundToStepQ(n, d, step) ==
    IF step <= 0 THEN n \div d ELSE RoundHalfEven(n, d * step) * step

RoundToStep(v, step) == RoundToStepQ(v, 1, step)


(* ------------------------------- state -------------------------------- *)
VARIABLES
    areas,                \* options[OPT_AREAS]: the configured areas, in order
    zones,                \* options[OPT_ZONES]
    options,              \* the runtime options of the config entry
    hvac_mode,            \* coordinator.hvac_mode
    house_target,         \* coordinator.house_target
    current_temperature,  \* coordinator.current_temperature
    runtime,              \* coordinator.runtime: area -> AreaRuntime
    running,              \* coordinator._running
    phase,                \* "constructed" | "setup" | "restoring"
    saved,                \* the entity state the host stored at the last shutdown
    tasks,                \* tasks of the event loop created by the coordinator
    sensor,               \* area -> state of its temperature sensor
    dev,                  \* area -> state of its actuator entity
    pending,              \* area -> service calls accepted, not yet reflected
    now,                  \* dt_util.utcnow()
    last,                 \* what the last step did (the actuator write it issued)
    suspended_from        \* history: active_zone_id when Suspend was last entered

vars == <<areas, zones, options, hvac_mode, house_target, current_temperature,
          runtime, running, phase, saved, tasks, sensor, dev, pending, now, last,
          suspended_from>>

AreaIds == 1..Len(areas)

(* ------------------------------ actuators ----------------------------- *)
\* ActuatorRead of a thermostat: the "temperature" attribute, hvac_modes, state.
ClimateRead(d) ==
    IF d.state = "missing"
    THEN [setpoint |-> NoneVal, is_on |-> "none", hvac_modes |-> {}, hvac_mode |-> "none"]
    ELSE [setpoint |-> d.temperature, is_on |-> "none",
          hvac_modes |-> d.hvac_modes, hvac_mode |-> d.state]

\* ActuatorRead of a number entity: float(state), None when it does not parse.
NumberRead(d) ==
    IF d.state = "ok"
    THEN [setpoint |-> d.temperature, is_on |-> "none", hvac_modes |-> {}, hvac_mode |-> "none"]
    ELSE [setpoint |-> NoneVal, is_on |-> "none", hvac_modes |-> {}, hvac_mode |-> "none"]

\* ActuatorRead of a switch: is_on = (state == "on"), None without a state.
SwitchRead(d) ==
    IF d.state = "missing"
    THEN [setpoint |-> NoneVal, is_on |-> "none", hvac_modes |-> {}, hvac_mode |-> "none"]
    ELSE [setpoint |-> NoneVal, is_on |-> IF d.state = "on" THEN "true" ELSE "false",
          hvac_modes |-> {}, hvac_mode |-> "none"]

(* ------------------------------ helpers ------------------------------- *)
is_suspended == options.active_zone_id = SUSPEND_ZONE_ID

\* A reading that takes a missing or unparseable state for 0.
ReadFloatStateOrZero(a) == IF sensor[a] = NoneVal THEN 0 ELSE sensor[a]

\* _read_float_state of the area's sensor: NoneVal when missing or unparseable.
ReadFloatState(a) == sensor[a]

IsAreaIncluded(a) == runtime[a].included

AreaSupportsMode(a) ==
    IF hvac_mode = "heat" THEN areas[a].supports_heat
    ELSE IF hvac_mode = "cool" THEN areas[a].supports_cool
    ELSE FALSE

\* A coordinator without a rate limit.
RateLimitedNever(a) == FALSE

RateLimited(a) ==
    IF runtime[a].last_change = NoneVal THEN FALSE
    ELSE now - runtime[a].last_change < options.min_change_seconds

\* A resolution that takes every stored zone for the active one.
AreaInActiveZoneOfAnyZone(a) ==
    LET zid == options.active_zone_id
    IN  IF zid = NullZone \/ zid = SUSPEND_ZONE_ID THEN FALSE
        ELSE \E k \in 1..Len(zones) : a \in zones[k].area_ids

AreaInActiveZone(a) ==
    LET zid == options.active_zone_id
    IN  IF zid = NullZone \/ zid = SUSPEND_ZONE_ID THEN FALSE
        ELSE IF \E k \in 1..Len(zones) : zones[k].id = zid
             THEN LET k == CHOOSE j \in 1..Len(zones) :
                               /\ zones[j].id = zid
                               /\ \A h \in 1..(j - 1) : zones[h].id # zid
                  IN  a \in zones[k].area_ids
             ELSE FALSE

DesiredRoomForArea(a) ==
    IF AreaInActiveZone(a) THEN house_target + options.active_zone_offset
    ELSE house_target

\* A selection that falls back on auto where neither the mode nor heat_cool is
\* listed.
SelectSupportedHvacModeOrAuto(hvac_modes, desired) ==
    IF desired \in hvac_modes THEN desired
    ELSE IF desired \in {"heat", "cool"} /\ "heat_cool" \in hvac_modes THEN "heat_cool"
    ELSE IF "auto" \in hvac_modes THEN "auto"
    ELSE "none"

\* A target that goes to the edge of the band whatever the error.
ComputeBandedSetpointTargetWithoutUnwind(room_temp, desired_room, center_sp, limit, unwind) ==
    LET e == room_temp - desired_room
        direction == IF hvac_mode = "cool"
                     THEN (IF e > 0 THEN -1 ELSE 1)
                     ELSE (IF e < 0 THEN 1 ELSE -1)
    IN  <<center_sp + direction * limit, 1>>

\* A target computed with the direction of heating in every mode.
ComputeBandedSetpointTargetOfHeat(room_temp, desired_room, center_sp, limit, unwind) ==
    LET e == room_temp - desired_room
        a == Abs(e)
        direction == IF e < 0 THEN 1 ELSE -1
    IN  IF unwind <= 0 \/ a >= unwind
        THEN <<center_sp + direction * limit, 1>>
        ELSE <<center_sp * unwind + direction * limit * a, unwind>>

\* _compute_banded_setpoint_target as the rational <<numerator, denominator>>.
ComputeBandedSetpointTarget(room_temp, desired_room, center_sp, limit, unwind) ==
    LET e == room_temp - desired_room
        a == Abs(e)
        direction == IF hvac_mode = "cool"
                     THEN (IF e > 0 THEN -1 ELSE 1)
                     ELSE (IF e < 0 THEN 1 ELSE -1)
    IN  IF unwind <= 0 \/ a >= unwind
        THEN <<center_sp + direction * limit, 1>>
        ELSE <<center_sp * unwind + direction * limit * a, unwind>>

SelectSupportedHvacMode(hvac_modes, desired) ==
    IF desired \in hvac_modes THEN desired
    ELSE IF desired \in {"heat", "cool"} /\ "heat_cool" \in hvac_modes THEN "heat_cool"
    ELSE "none"

(* ------------------------------- writes ------------------------------- *)
NoWrite == [area |-> 0, op |-> "none", val |-> NoneVal, mode |-> "none"]
SetTemperature(a, v) == [area |-> a, op |-> "set_temperature", val |-> v, mode |-> "none"]
SetValue(a, v) == [area |-> a, op |-> "set_value", val |-> v, mode |-> "none"]
SetHvacModeCall(a, m) == [area |-> a, op |-> "set_hvac_mode", val |-> NoneVal, mode |-> m]
TurnOn(a) == [area |-> a, op |-> "turn_on", val |-> NoneVal, mode |-> "none"]
TurnOff(a) == [area |-> a, op |-> "turn_off", val |-> NoneVal, mode |-> "none"]

ActuatorRead(a) ==
    IF areas[a].typ = ACTUATOR_CLIMATE THEN ClimateRead(dev[a])
    ELSE IF areas[a].typ = ACTUATOR_NUMBER THEN NumberRead(dev[a])
    ELSE SwitchRead(dev[a])

(* -------------------------- actuator handlers ------------------------- *)
\* A forcing of the mode that waits, as the setpoint does, while the area is
\* rate-limited.
ForceClimateModeRateLimited(a) ==
    LET read == ClimateRead(dev[a])
        target == SelectSupportedHvacMode(read.hvac_modes, hvac_mode)
    IN  IF target = "none" \/ RateLimited(a) THEN "none"
        ELSE IF read.hvac_mode # target THEN target
        ELSE "none"

\* _force_climate_mode: the mode to write, "none" when nothing is written.
ForceClimateMode(a) ==
    LET read == ClimateRead(dev[a])
        target == SelectSupportedHvacMode(read.hvac_modes, hvac_mode)
    IN  IF target = "none" THEN "none"
        ELSE IF read.hvac_mode # target THEN target
        ELSE "none"

\* A switch handler that holds its command while an earlier one to the switch is
\* not yet carried out.
HandleSwitchHeld(a, room_temp, desired, deadband) ==
    LET read == SwitchRead(dev[a])
    IN  IF read.is_on = "none" \/ pending[a].on # "none" THEN NoWrite
        ELSE IF hvac_mode = "heat"
        THEN IF room_temp < desired - deadband /\ read.is_on = "false" THEN TurnOn(a)
             ELSE IF room_temp > desired + deadband /\ read.is_on = "true" THEN TurnOff(a)
             ELSE NoWrite
        ELSE IF room_temp > desired + deadband /\ read.is_on = "false" THEN TurnOn(a)
             ELSE IF room_temp < desired - deadband /\ read.is_on = "true" THEN TurnOff(a)
             ELSE NoWrite

\* _handle_switch: the write it issues, NoWrite when it issues none.
HandleSwitch(a, room_temp, desired, deadband) ==
    LET read == SwitchRead(dev[a])
    IN  IF read.is_on = "none" THEN NoWrite
        ELSE IF hvac_mode = "heat"
        THEN IF room_temp < desired - deadband /\ read.is_on = "false" THEN TurnOn(a)
             ELSE IF room_temp > desired + deadband /\ read.is_on = "true" THEN TurnOff(a)
             ELSE NoWrite
        ELSE IF room_temp > desired + deadband /\ read.is_on = "false" THEN TurnOn(a)
             ELSE IF room_temp < desired - deadband /\ read.is_on = "true" THEN TurnOff(a)
             ELSE NoWrite

\* center rounded to step within the device bounds.
CenterSp(a, desired_room) ==
    RoundToStep(Clamp(desired_room + areas[a].bias, areas[a].min_setpoint,
                      areas[a].max_setpoint), areas[a].step)

\* A target that is rounded without being clamped to the band.
BandedTargetUnclamped(a, room_temp, desired_room, limit, unwind) ==
    LET center == desired_room + areas[a].bias
        q == ComputeBandedSetpointTarget(room_temp, desired_room, center, limit, unwind)
    IN  RoundToStepQ(q[1], q[2], areas[a].step)

\* The target of the banded controller: banded, clamped to the band, rounded.
BandedTarget(a, room_temp, desired_room, limit, unwind) ==
    LET lo == areas[a].min_setpoint
        hi == areas[a].max_setpoint
        center == desired_room + areas[a].bias
        band_lo == Clamp(center - limit, lo, hi)
        band_hi == Clamp(center + limit, lo, hi)
        q == ComputeBandedSetpointTarget(room_temp, desired_room, center, limit, unwind)
        n == q[1]
        d == q[2]
        c == IF n > band_hi * d THEN <<band_hi, 1>>
             ELSE IF n < band_lo * d THEN <<band_lo, 1>>
             ELSE q
    IN  RoundToStepQ(c[1], c[2], areas[a].step)

\* A step of step * gain that does not stop at target_sp.
NudgeStepUnbounded(a, cur, target_sp) ==
    LET delta == (areas[a].step * areas[a].gain_num) \div GainDen
        new_sp == IF cur < target_sp THEN cur + delta ELSE cur - delta
    IN  RoundToStep(Clamp(new_sp, areas[a].min_setpoint, areas[a].max_setpoint),
                    areas[a].step)

\* One bounded step from the setpoint cur toward target_sp.
NudgeStep(a, cur, target_sp) ==
    LET delta == (areas[a].step * areas[a].gain_num) \div GainDen
        new_sp == IF cur < target_sp THEN Min2(cur + delta, target_sp)
                  ELSE Max2(cur - delta, target_sp)
    IN  RoundToStep(Clamp(new_sp, areas[a].min_setpoint, areas[a].max_setpoint),
                    areas[a].step)

\* A nudge that holds the setpoint wherever it is while the room is within the
\* deadband.
BandedNudgeHoldingInDeadband(a, setpoint, room_temp, desired_room, deadband, limit, unwind) ==
    LET center_sp == CenterSp(a, desired_room)
        target_sp == BandedTarget(a, room_temp, desired_room, limit, unwind)
        new_sp == NudgeStep(a, setpoint, target_sp)
    IN  IF setpoint = NoneVal THEN [changed |-> TRUE, val |-> center_sp]
        ELSE IF setpoint = target_sp THEN [changed |-> FALSE, val |-> NoneVal]
        ELSE IF Abs(room_temp - desired_room) <= deadband
        THEN [changed |-> FALSE, val |-> NoneVal]
        ELSE IF new_sp = setpoint THEN [changed |-> FALSE, val |-> NoneVal]
        ELSE [changed |-> TRUE, val |-> new_sp]

\* The body shared by _handle_climate_banded_nudge and _handle_number_banded_nudge:
\* [changed, val] for the setpoint the actuator reports.
BandedNudge(a, setpoint, room_temp, desired_room, deadband, limit, unwind) ==
    LET center_sp == CenterSp(a, desired_room)
        target_sp == BandedTarget(a, room_temp, desired_room, limit, unwind)
        new_sp == NudgeStep(a, setpoint, target_sp)
    IN  IF setpoint = NoneVal THEN [changed |-> TRUE, val |-> center_sp]
        ELSE IF setpoint = target_sp THEN [changed |-> FALSE, val |-> NoneVal]
        ELSE IF Abs(room_temp - desired_room) <= deadband /\ new_sp = center_sp
        THEN [changed |-> FALSE, val |-> NoneVal]
        ELSE IF new_sp = setpoint THEN [changed |-> FALSE, val |-> NoneVal]
        ELSE [changed |-> TRUE, val |-> new_sp]

HandleClimateBandedNudge(a, room_temp, desired_room, deadband, limit, unwind) ==
    LET r == BandedNudge(a, ClimateRead(dev[a]).setpoint, room_temp, desired_room,
                         deadband, limit, unwind)
    IN  IF r.changed THEN SetTemperature(a, r.val) ELSE NoWrite

HandleNumberBandedNudge(a, room_temp, desired_room, deadband, limit, unwind) ==
    LET r == BandedNudge(a, NumberRead(dev[a]).setpoint, room_temp, desired_room,
                         deadband, limit, unwind)
    IN  IF r.changed THEN SetValue(a, r.val) ELSE NoWrite

(* ------------------------------- passes ------------------------------- *)
\* A pass runs from its position to its next service call, where it is suspended
\* (pc, area i and the local target_sp of the handler kept in loc), or to its end.
Finished == [done |-> TRUE, w |-> NoWrite, pc |-> "end", i |-> 0, loc |-> NoneVal]
Suspended(w, pc, loc) == [done |-> FALSE, w |-> w, pc |-> pc, i |-> w.area, loc |-> loc]

Limit == Max2(0, options.setpoint_limit)
Unwind == Max2(0, options.unwind_threshold)

\* The areas loop of _async_control_loop from area i; ph = "mode" resumes area i
\* after the await of _force_climate_mode.
RECURSIVE LoopScan(_, _)
LoopScan(i, ph) ==
    IF i > Len(areas) THEN Finished
    ELSE IF ph = "begin" /\ ~(IsAreaIncluded(i) /\ AreaSupportsMode(i))
    THEN LoopScan(i + 1, "begin")
    ELSE IF ph = "begin" /\ areas[i].typ = ACTUATOR_CLIMATE /\ ForceClimateMode(i) # "none"
    THEN Suspended(SetHvacModeCall(i, ForceClimateMode(i)), "mode", NoneVal)
    ELSE LET room_temp == ReadFloatState(i)
             desired == DesiredRoomForArea(i)
             w == IF areas[i].typ = ACTUATOR_SWITCH
                  THEN HandleSwitch(i, room_temp, desired, options.deadband)
                  ELSE IF RateLimited(i) THEN NoWrite
                  ELSE IF areas[i].typ = ACTUATOR_CLIMATE
                  THEN HandleClimateBandedNudge(i, room_temp, desired, options.deadband,
                                                Limit, Unwind)
                  ELSE HandleNumberBandedNudge(i, room_temp, desired, options.deadband,
                                               Limit, Unwind)
             target_sp == IF ActuatorRead(i).setpoint = NoneVal THEN NoneVal
                          ELSE BandedTarget(i, room_temp, desired, Limit, Unwind)
         IN  IF room_temp = NoneVal THEN LoopScan(i + 1, "begin")
             ELSE IF w = NoWrite THEN LoopScan(i + 1, "begin")
             ELSE IF areas[i].typ = ACTUATOR_SWITCH THEN Suspended(w, "sw", NoneVal)
             ELSE Suspended(w, "temp", target_sp)

\* A write of the setpoint only where the actuator reports another one.
ApplySetpointWriteIfDiffers(a, force_write_temp, target_sp) ==
    LET read == ActuatorRead(a)
    IN  IF read.setpoint = NoneVal \/ read.setpoint # target_sp
        THEN (IF areas[a].typ = ACTUATOR_CLIMATE THEN SetTemperature(a, target_sp)
              ELSE SetValue(a, target_sp))
        ELSE NoWrite

\* The write of the setpoint in _async_apply_manual_target_center_sync.
ApplySetpointWrite(a, force_write_temp, target_sp) ==
    LET read == ActuatorRead(a)
    IN  IF force_write_temp \/ read.setpoint = NoneVal \/ read.setpoint # target_sp
        THEN (IF areas[a].typ = ACTUATOR_CLIMATE THEN SetTemperature(a, target_sp)
              ELSE SetValue(a, target_sp))
        ELSE NoWrite

\* The areas loop of _async_apply_manual_target_center_sync from area i; ph = "mode"
\* resumes area i after the await of _force_climate_mode with its target_sp in loc.
RECURSIVE ApplyScan(_, _, _, _)
ApplyScan(i, ph, loc, force_write_temp) ==
    IF i > Len(areas) THEN Finished
    ELSE IF ph = "mode"
    THEN LET w == ApplySetpointWrite(i, force_write_temp, loc)
         IN  IF w = NoWrite THEN ApplyScan(i + 1, "begin", NoneVal, force_write_temp)
             ELSE Suspended(w, "temp", NoneVal)
    ELSE IF ~(IsAreaIncluded(i) /\ AreaSupportsMode(i))
    THEN ApplyScan(i + 1, "begin", NoneVal, force_write_temp)
    ELSE IF ReadFloatState(i) = NoneVal
    THEN ApplyScan(i + 1, "begin", NoneVal, force_write_temp)
    ELSE LET room_temp == ReadFloatState(i)
             desired == DesiredRoomForArea(i)
             target_sp == CenterSp(i, desired)
             sw == HandleSwitch(i, room_temp, desired, options.deadband)
             w == ApplySetpointWrite(i, force_write_temp, target_sp)
         IN  IF areas[i].typ = ACTUATOR_SWITCH
             THEN (IF sw = NoWrite THEN ApplyScan(i + 1, "begin", NoneVal, force_write_temp)
                   ELSE Suspended(sw, "sw", NoneVal))
             ELSE IF areas[i].typ = ACTUATOR_CLIMATE /\ ForceClimateMode(i) # "none"
             THEN Suspended(SetHvacModeCall(i, ForceClimateMode(i)), "mode", target_sp)
             ELSE IF w = NoWrite THEN ApplyScan(i + 1, "begin", NoneVal, force_write_temp)
             ELSE Suspended(w, "temp", NoneVal)

\* The areas loop of _async_turn_off_all_actuators from area i.
RECURSIVE TurnOffScan(_)
RECURSIVE TurnOffOfSupporting(_)
\* A turn-off that leaves the areas alone that do not support the mode.
TurnOffOfSupporting(i) ==
    IF i > Len(areas) THEN Finished
    ELSE IF ~(IsAreaIncluded(i) /\ AreaSupportsMode(i)) THEN TurnOffOfSupporting(i + 1)
    ELSE IF areas[i].typ = ACTUATOR_CLIMATE
    THEN (IF "off" \in ClimateRead(dev[i]).hvac_modes
          THEN Suspended(SetHvacModeCall(i, "off"), "off", NoneVal)
          ELSE TurnOffOfSupporting(i + 1))
    ELSE IF areas[i].typ = ACTUATOR_SWITCH THEN Suspended(TurnOff(i), "off", NoneVal)
    ELSE TurnOffOfSupporting(i + 1)

TurnOffScan(i) ==
    IF i > Len(areas) THEN Finished
    ELSE IF ~IsAreaIncluded(i) THEN TurnOffScan(i + 1)
    ELSE IF areas[i].typ = ACTUATOR_CLIMATE
    THEN (IF "off" \in ClimateRead(dev[i]).hvac_modes
          THEN Suspended(SetHvacModeCall(i, "off"), "off", NoneVal)
          ELSE TurnOffScan(i + 1))
    ELSE IF areas[i].typ = ACTUATOR_SWITCH THEN Suspended(TurnOff(i), "off", NoneVal)
    ELSE TurnOffScan(i + 1)

\* sum(temps) and len(temps) over the areas of S with a readable sensor;
\* current_temperature is their quotient, None (<<0, 0>>) when there is none.
RECURSIVE SumTemps(_)
SumTemps(S) ==
    IF S = {} THEN 0
    ELSE LET a == CHOOSE x \in S : TRUE IN sensor[a] + SumTemps(S \ {a})

MeanOf(S) ==
    LET R == {a \in S : ReadFloatState(a) # NoneVal}
    IN  <<SumTemps(R), Cardinality(R)>>

\* An aggregate that filters on the mode in off as well.
LoopTempAreasOfSupporting ==
    {a \in AreaIds : IsAreaIncluded(a) /\ AreaSupportsMode(a)}

\* The areas whose sensors _async_control_loop averages.
LoopTempAreas ==
    {a \in AreaIds : IsAreaIncluded(a) /\ (hvac_mode = "off" \/ AreaSupportsMode(a))}

\* The areas whose sensors _async_turn_off_all_actuators averages.
OffTempAreas == {a \in AreaIds : IsAreaIncluded(a)}

(* ------------------------- coordinator commands ----------------------- *)
NewTask(kind) == [kind |-> kind, pc |-> "new", i |-> 0, loc |-> NoneVal, t0 |-> 0]

Remove(seq, k) == SubSeq(seq, 1, k - 1) \o SubSeq(seq, k + 1, Len(seq))

NoStep == [kind |-> "none", ev |-> "none", from |-> 0, w |-> NoWrite, cleared |-> {}]
\* The log of a step that called the coordinator's method `name`.
Called(name) == [kind |-> "call", ev |-> name, from |-> 0, w |-> NoWrite, cleared |-> {}]
\* The log of a call of set_hvac_mode that left the runtime rt: the areas whose
\* last_change it cleared.
CalledSetHvacMode(rt) ==
    [Called("set_hvac_mode") EXCEPT
        !.cleared = {a \in AreaIds : runtime[a].last_change # NoneVal
                                     /\ rt[a].last_change = NoneVal}]

IsRealZone(zid) == zid # NullZone /\ zid # SUSPEND_ZONE_ID

\* A zone selection that applies at once whatever is selected, Suspend included.
AsyncSetActiveZoneAlwaysApplying(zone_id, opts) ==
    LET prev_zone_id == opts.active_zone_id
        o1 == [opts EXCEPT !.active_zone_id = zone_id]
        o2 == IF zone_id = NullZone
              THEN [o1 EXCEPT !.last_non_suspend_zone_id = NullZone]
              ELSE IF zone_id # SUSPEND_ZONE_ID
              THEN [o1 EXCEPT !.last_non_suspend_zone_id = zone_id]
              ELSE o1
        o3 == IF zone_id = SUSPEND_ZONE_ID /\ IsRealZone(prev_zone_id)
              THEN [o2 EXCEPT !.last_non_suspend_zone_id = prev_zone_id]
              ELSE o2
    IN  [options |-> o3, spawn |-> TRUE]

\* async_set_active_zone: the options it leaves and whether it creates the
\* immediate-apply task.
AsyncSetActiveZone(zone_id, opts) ==
    LET prev_zone_id == opts.active_zone_id
        o1 == [opts EXCEPT !.active_zone_id = zone_id]
        o2 == IF zone_id = NullZone
              THEN [o1 EXCEPT !.last_non_suspend_zone_id = NullZone]
              ELSE IF zone_id # SUSPEND_ZONE_ID
              THEN [o1 EXCEPT !.last_non_suspend_zone_id = zone_id]
              ELSE o1
        o3 == IF zone_id = SUSPEND_ZONE_ID /\ IsRealZone(prev_zone_id)
              THEN [o2 EXCEPT !.last_non_suspend_zone_id = prev_zone_id]
              ELSE o2
    IN  [options |-> o3, spawn |-> zone_id # SUSPEND_ZONE_ID]

\* A set_hvac_mode that keeps the timestamps of the areas.
SetHvacModeKeepingTimes(mode, opts, rt) ==
    LET o1 == IF mode \in {"heat", "cool"} /\ opts.active_zone_id = SUSPEND_ZONE_ID
              THEN [opts EXCEPT !.active_zone_id = opts.last_non_suspend_zone_id]
              ELSE opts
    IN  [options |-> o1, runtime |-> rt,
         task |-> IF mode = "off" THEN NewTask("off") ELSE NewTask("apply")]

\* set_hvac_mode: the options and runtime it leaves and the task it creates.
SetHvacMode(mode, opts, rt) ==
    LET prev == hvac_mode
        o1 == IF mode \in {"heat", "cool"} /\ opts.active_zone_id = SUSPEND_ZONE_ID
              THEN [opts EXCEPT !.active_zone_id = opts.last_non_suspend_zone_id]
              ELSE opts
        rt1 == IF mode # "off" /\ prev # mode
               THEN [a \in DOMAIN rt |-> [rt[a] EXCEPT !.last_change = NoneVal]]
               ELSE rt
    IN  [options |-> o1, runtime |-> rt1,
         task |-> IF mode = "off" THEN NewTask("off") ELSE NewTask("apply")]

\* A watchdog that looks at the actuators of excluded areas too.
AutoSuspendOfAnyArea ==
    /\ options.active_zone_id # SUSPEND_ZONE_ID
    /\ \E a \in AreaIds :
          \/ areas[a].typ = ACTUATOR_SWITCH /\ SwitchRead(dev[a]).is_on = "true"
          \/ /\ areas[a].typ = ACTUATOR_CLIMATE
             /\ ClimateRead(dev[a]).hvac_mode \notin {"none", "off"}

\* _async_auto_suspend_if_any_actuator_on: whether it enters Suspend.
AutoSuspendTriggered ==
    /\ options.active_zone_id # SUSPEND_ZONE_ID
    /\ \E a \in AreaIds :
          /\ IsAreaIncluded(a)
          /\ \/ areas[a].typ = ACTUATOR_SWITCH /\ SwitchRead(dev[a]).is_on = "true"
             \/ /\ areas[a].typ = ACTUATOR_CLIMATE
                /\ ClimateRead(dev[a]).hvac_mode \notin {"none", "off"}

\* A watchdog that forgets the zone it leaves.
AutoSuspendOptionsForgetting ==
    IF AutoSuspendTriggered
    THEN [options EXCEPT !.active_zone_id = SUSPEND_ZONE_ID,
                         !.last_non_suspend_zone_id = NullZone]
    ELSE options

AutoSuspendOptions ==
    IF AutoSuspendTriggered THEN AsyncSetActiveZone(SUSPEND_ZONE_ID, options).options
    ELSE options

\* get_preset_label_to_zone_id().get(label): a zone's label is modelled by its id.
PresetLabelToZoneId(label) ==
    IF \E k \in 1..Len(zones) : zones[k].id = label THEN label ELSE NullZone

\* get_active_preset_label, "none" where the entity maps None.
ActivePresetLabel ==
    IF options.active_zone_id = SUSPEND_ZONE_ID THEN "Suspend"
    ELSE IF options.active_zone_id = NullZone THEN "none"
    ELSE IF \E k \in 1..Len(zones) : zones[k].id = options.active_zone_id
    THEN options.active_zone_id
    ELSE "none"

\* AdaptiveClimaEntity.hvac_mode
EntityHvacMode == IF is_suspended THEN "off" ELSE hvac_mode

NoCmd == [mode |-> "none", sp |-> NoneVal, on |-> "none"]

\* A service call accepted by the host (blocking=False): not yet reflected.
Issue(w, pend) ==
    IF w.op \in {"set_temperature", "set_value"}
    THEN [pend EXCEPT ![w.area].sp = w.val]
    ELSE IF w.op = "set_hvac_mode" THEN [pend EXCEPT ![w.area].mode = w.mode]
    ELSE IF w.op = "turn_on" THEN [pend EXCEPT ![w.area].on = "true"]
    ELSE IF w.op = "turn_off" THEN [pend EXCEPT ![w.area].on = "false"]
    ELSE pend

(* --------------------------- configuration ---------------------------- *)
Area(typ, heat, cool, bias, gain_num, included) ==
    [typ |-> typ, supports_heat |-> heat, supports_cool |-> cool,
     min_setpoint |-> DEFAULT_MIN_SETPOINT, max_setpoint |-> DEFAULT_MAX_SETPOINT,
     step |-> DEFAULT_STEP, bias |-> bias, gain_num |-> gain_num, included |-> included]

BuiltinZone(zid, a) == [id |-> zid, area_ids |-> {a}, builtin |-> TRUE, tied_area_id |-> a]

\* A house with a thermostat and a switch that only heats.
HouseAreas ==
    << Area(ACTUATOR_CLIMATE, TRUE, TRUE, 0, GainDen, TRUE),
       Area(ACTUATOR_SWITCH, TRUE, FALSE, 0, GainDen, TRUE) >>

HouseZones == << BuiltinZone("z1", 1), BuiltinZone("z2", 2) >>

\* A house with a number entity that only heats and a switch that only cools.
HouseNumberAreas ==
    << Area(ACTUATOR_NUMBER, TRUE, FALSE, 0, GainDen, TRUE),
       Area(ACTUATOR_SWITCH, FALSE, TRUE, 0, GainDen, TRUE) >>

\* A house with a thermostat and a number entity that only heats, its bias 0.25
\* and its highest setpoint 22.
HouseSetpointAreas ==
    << Area(ACTUATOR_CLIMATE, TRUE, TRUE, 0, GainDen, TRUE),
       [Area(ACTUATOR_NUMBER, TRUE, FALSE, 1, GainDen, TRUE)
           EXCEPT !.max_setpoint = DEFAULT_HOUSE_TARGET + 4] >>

DefaultOptions ==
    [house_target |-> DEFAULT_HOUSE_TARGET,
     active_zone_id |-> NullZone,
     last_non_suspend_zone_id |-> NullZone,
     active_zone_offset |-> DEFAULT_ACTIVE_ZONE_OFFSET,
     deadband |-> DEFAULT_DEADBAND,
     min_change_seconds |-> DEFAULT_MIN_CHANGE_SECONDS,
     setpoint_limit |-> DEFAULT_SETPOINT_LIMIT,
     unwind_threshold |-> DEFAULT_UNWIND_THRESHOLD]

\* The inputs of the operator and of the environment.
TargetVals == {DEFAULT_HOUSE_TARGET, DEFAULT_HOUSE_TARGET + 8}
OffsetVals == {DEFAULT_ACTIVE_ZONE_OFFSET, 4}
SensorVals == {DEFAULT_HOUSE_TARGET - 8, DEFAULT_HOUSE_TARGET, NoneVal}
PresetLabels == {"none", "Suspend"} \cup {zones[k].id : k \in 1..Len(zones)}
ClimateStates == {"off", "heat", "unavailable"}
SwitchStates == {"on", "off"}

\* The actuator entity of an area of type typ as the host first reports it; a
\* thermostat offers modes and is in the state st.
InitDev(typ, modes, st) ==
    IF typ = ACTUATOR_CLIMATE
    THEN [state |-> st, temperature |-> DEFAULT_HOUSE_TARGET, hvac_modes |-> modes]
    ELSE IF typ = ACTUATOR_NUMBER
    THEN [state |-> "ok", temperature |-> DEFAULT_HOUSE_TARGET, hvac_modes |-> {}]
    ELSE [state |-> "off", temperature |-> NoneVal, hvac_modes |-> {}]

NoSaved == [state |-> "none", temperature |-> NoneVal, preset_mode |-> "none"]

\* HouseClimaCoordinator.__init__ on a fresh config entry with the areas A and the
\* zones Z, the sensors reading room, the thermostats offering modes, in state st.
Fresh(A, Z, room, modes, st) ==
    /\ areas = A
    /\ zones = Z
    /\ options = DefaultOptions
    /\ hvac_mode = "off"
    /\ house_target = DEFAULT_HOUSE_TARGET
    /\ current_temperature = <<0, 0>>
    /\ runtime = [a \in 1..Len(A) |-> [included |-> TRUE, last_change |-> NoneVal]]
    /\ running = FALSE
    /\ phase = "constructed"
    /\ saved = NoSaved
    /\ tasks = << >>
    /\ sensor = [a \in 1..Len(A) |-> room]
    /\ dev = [a \in 1..Len(A) |-> InitDev(A[a].typ, modes, st)]
    /\ pending = [a \in 1..Len(A) |-> NoCmd]
    /\ now = 0
    /\ last = NoStep
    /\ suspended_from = "unset"

Init ==
    Fresh(HouseAreas, HouseZones, DEFAULT_HOUSE_TARGET - 8, {"off", "heat", "cool"}, "off")

(* ------------------------------ lifecycle ----------------------------- *)
conf == <<areas, zones>>
world == <<sensor, dev>>

\* History: the zone that was active when the options o entered Suspend; it is
\* forgotten at the next set_hvac_mode("heat" | "cool") and when the operator
\* selects a zone or none.
EnteredFrom(o) ==
    IF options.active_zone_id # SUSPEND_ZONE_ID /\ o.active_zone_id = SUSPEND_ZONE_ID
    THEN options.active_zone_id
    ELSE suspended_from

\* A control loop that never looks at _running.
ReentrancyGuardAbsent == FALSE

\* if self._running: return
ReentrancyGuard == running

\* async_setup: the runtime of every area, the timer, and the first control pass,
\* which finds hvac_mode = "off" and so runs to its end without an await.
Setup ==
    /\ phase = "constructed"
    /\ phase' = "setup"
    /\ runtime' = [a \in AreaIds |-> [included |-> areas[a].included, last_change |-> NoneVal]]
    /\ current_temperature' =
          MeanOf({a \in AreaIds : areas[a].included})
    /\ options' = AutoSuspendOptions
    /\ suspended_from' = EnteredFrom(AutoSuspendOptions)
    /\ last' = NoStep
    /\ UNCHANGED <<conf, world, hvac_mode, house_target, running, saved, tasks, pending, now>>

\* AdaptiveClimaEntity.async_added_to_hass with coordinator.async_restore_state:
\* the state the host stored is applied; without one nothing is restored.
Restore ==
    /\ phase = "setup"
    /\ Len(tasks) < MaxTasks
    /\ phase' = "ready"
    /\ saved' = NoSaved
    /\ IF saved = NoSaved
       THEN UNCHANGED <<options, hvac_mode, house_target, runtime, tasks, suspended_from>>
       ELSE LET o1 == [options EXCEPT !.house_target = saved.temperature]
                o2 == IF saved.preset_mode = "none"
                      THEN [o1 EXCEPT !.active_zone_id = NullZone]
                      ELSE [o1 EXCEPT !.active_zone_id =
                                          PresetLabelToZoneId(saved.preset_mode)]
                r == SetHvacMode(saved.state, o2, runtime)
            IN  /\ house_target' = saved.temperature
                /\ hvac_mode' = saved.state
                /\ options' = r.options
                /\ runtime' = r.runtime
                /\ tasks' = Append(tasks, r.task)
                /\ suspended_from' = IF saved.state = "off" THEN suspended_from
                                      ELSE "unset"
    /\ last' = IF saved = NoSaved THEN NoStep ELSE CalledSetHvacMode(runtime')
    /\ UNCHANGED <<conf, world, current_temperature, running, pending, now>>

\* The host restarts: it stores the entity's state, every task is gone and the
\* coordinator is constructed anew on the persisted options.
Restart ==
    /\ phase = "ready"
    /\ saved' = [state |-> EntityHvacMode, temperature |-> house_target,
                 preset_mode |-> ActivePresetLabel]
    /\ phase' = "constructed"
    /\ hvac_mode' = "off"
    /\ house_target' = options.house_target
    /\ current_temperature' = <<0, 0>>
    /\ runtime' = [a \in AreaIds |-> [included |-> TRUE, last_change |-> NoneVal]]
    /\ running' = FALSE
    /\ tasks' = << >>
    /\ last' = NoStep
    /\ UNCHANGED <<conf, world, options, pending, now, suspended_from>>

(* ------------------------- operator commands -------------------------- *)
\* An entity that hands every request on to the coordinator.
IgnoredNever(request, value) == FALSE

\* The requests the entity drops while Suspended: hvac_mode "off" and every preset
\* but "Suspend".
IgnoredWhileSuspended(request, value) ==
    /\ is_suspended
    /\ \/ request = "hvac_mode" /\ value = "off"
       \/ request = "preset_mode" /\ value # "Suspend"

\* AdaptiveClimaEntity.async_set_hvac_mode
EntitySetHvacMode(m) ==
    /\ phase = "ready"
    /\ Len(tasks) < MaxTasks
    /\ IF IgnoredWhileSuspended("hvac_mode", m)
       THEN UNCHANGED <<options, hvac_mode, runtime, tasks, suspended_from>>
       ELSE LET r == SetHvacMode(m, options, runtime)
            IN  /\ hvac_mode' = m
                /\ options' = r.options
                /\ runtime' = r.runtime
                /\ tasks' = Append(tasks, r.task)
                /\ suspended_from' = IF m = "off" THEN suspended_from ELSE "unset"
    /\ last' = IF IgnoredWhileSuspended("hvac_mode", m) THEN Called("ignored")
               ELSE CalledSetHvacMode(runtime')
    /\ UNCHANGED <<conf, world, house_target, current_temperature, running, phase, saved,
                   pending, now>>

\* AdaptiveClimaEntity.async_set_preset_mode
EntitySetPresetMode(label) ==
    /\ phase = "ready"
    /\ Len(tasks) < MaxTasks
    /\ IF IgnoredWhileSuspended("preset_mode", label)
       THEN UNCHANGED <<options, tasks, suspended_from>>
       ELSE LET zid == IF label = "none" THEN NullZone
                       ELSE IF label = "Suspend" THEN SUSPEND_ZONE_ID
                       ELSE PresetLabelToZoneId(label)
                r == AsyncSetActiveZone(zid, options)
            IN  /\ options' = r.options
                /\ tasks' = IF r.spawn THEN Append(tasks, NewTask("apply")) ELSE tasks
                /\ suspended_from' = IF zid = SUSPEND_ZONE_ID THEN EnteredFrom(r.options)
                                      ELSE "unset"
    /\ last' = IF IgnoredWhileSuspended("preset_mode", label) THEN Called("ignored")
               ELSE NoStep
    /\ UNCHANGED <<conf, world, hvac_mode, house_target, current_temperature, runtime,
                   running, phase, saved, pending, now>>

\* AdaptiveClimaEntity.async_set_temperature with async_set_house_target
EntitySetTemperature(v) ==
    /\ phase = "ready"
    /\ Len(tasks) < MaxTasks
    /\ house_target' = v
    /\ options' = [options EXCEPT !.house_target = v]
    /\ tasks' = IF is_suspended \/ hvac_mode = "off" THEN tasks
                ELSE Append(tasks, NewTask("apply"))
    /\ last' = NoStep
    /\ UNCHANGED <<suspended_from, conf, world, hvac_mode, current_temperature, runtime, running, phase,
                   saved, pending, now>>

\* An offset change that applies at once, as a zone selection does.
AsyncSetActiveZoneOffsetApplying(value, opts) ==
    [options |-> [opts EXCEPT !.active_zone_offset = Max2(0, value)], spawn |-> TRUE]

\* async_set_active_zone_offset: the options it leaves; it creates no task.
AsyncSetActiveZoneOffset(value, opts) ==
    [options |-> [opts EXCEPT !.active_zone_offset = Max2(0, value)], spawn |-> FALSE]

\* ZoneOffsetNumber.async_set_native_value with async_set_active_zone_offset
NumberSetValue(v) ==
    /\ phase = "ready"
    /\ \E r \in {AsyncSetActiveZoneOffset(v, options)} :
          /\ options' = r.options
          /\ tasks' = IF r.spawn THEN Append(tasks, NewTask("apply")) ELSE tasks
    /\ last' = NoStep
    /\ UNCHANGED <<suspended_from, conf, world, hvac_mode, house_target, current_temperature, runtime,
                   running, phase, saved, pending, now>>

\* IncludeAreaSwitch.async_turn_on / async_turn_off with set_area_included
IncludeSwitch(a, included) ==
    /\ phase = "ready"
    /\ runtime' = [runtime EXCEPT ![a].included = included]
    /\ last' = NoStep
    /\ UNCHANGED <<suspended_from, conf, world, options, hvac_mode, house_target, current_temperature,
                   running, phase, saved, tasks, pending, now>>

\* The timer of async_track_time_interval fires: _async_tick is a new task.
Tick ==
    /\ phase # "constructed"
    /\ Len(tasks) < MaxTasks
    /\ tasks' = Append(tasks, NewTask("loop"))
    /\ last' = NoStep
    /\ UNCHANGED <<suspended_from, conf, world, options, hvac_mode, house_target, current_temperature,
                   runtime, running, phase, saved, pending, now>>

(* ------------------------------- tasks -------------------------------- *)
\* Tasks are started in the order of their creation; a suspended one resumes
\* whenever its service call returns.
CanStep(k) ==
    /\ k \in 1..Len(tasks)
    /\ tasks[k].pc = "new" => \A j \in 1..(k - 1) : tasks[j].pc # "new"

StepLog(k, r) == [kind |-> tasks[k].kind, ev |-> IF r.done THEN "end" ELSE "write",
                  from |-> tasks[k].i, w |-> r.w, cleared |-> {}]

Park(k, r) == [tasks EXCEPT ![k].pc = r.pc, ![k].i = r.i, ![k].loc = r.loc]

\* _async_control_loop, from its start or from the await it was suspended at, to
\* its next service call or its end (the finally clause clears _running).
LoopStep(k) ==
    /\ CanStep(k)
    /\ tasks[k].kind = "loop"
    /\ LET t == tasks[k]
       IN  IF t.pc = "new" /\ ReentrancyGuard
           THEN /\ tasks' = Remove(tasks, k)
                /\ last' = [kind |-> "loop", ev |-> "drop", from |-> 0, w |-> NoWrite, cleared |-> {}]
                /\ UNCHANGED <<options, current_temperature, runtime, running, pending,
                               suspended_from>>
           ELSE IF t.pc = "new" /\ (hvac_mode = "off" \/ is_suspended)
           THEN /\ current_temperature' = MeanOf(LoopTempAreas)
                /\ options' = IF hvac_mode = "off" THEN AutoSuspendOptions ELSE options
                /\ suspended_from' = IF hvac_mode = "off" THEN EnteredFrom(AutoSuspendOptions)
                                      ELSE suspended_from
                /\ running' = FALSE
                /\ tasks' = Remove(tasks, k)
                /\ last' = [kind |-> "loop",
                            ev |-> IF hvac_mode = "off" /\ AutoSuspendTriggered
                                   THEN "auto_suspend" ELSE "end",
                            from |-> 0, w |-> NoWrite, cleared |-> {}]
                /\ UNCHANGED <<runtime, pending>>
           ELSE \E r \in {IF t.pc = "new" THEN LoopScan(1, "begin")
                         ELSE IF t.pc = "mode" THEN LoopScan(t.i, "mode")
                         ELSE LoopScan(t.i + 1, "begin")} :
                    /\ current_temperature' =
                          IF t.pc = "new" THEN MeanOf(LoopTempAreas)
                          ELSE current_temperature
                    /\ runtime' = IF t.pc = "temp"
                                  THEN [runtime EXCEPT ![t.i].last_change = now]
                                  ELSE runtime
                    /\ running' = ~r.done
                    /\ tasks' = IF r.done THEN Remove(tasks, k) ELSE Park(k, r)
                    /\ pending' = Issue(r.w, pending)
                    /\ last' = StepLog(k, r)
                    /\ UNCHANGED <<options, suspended_from>>
    /\ UNCHANGED <<conf, world, hvac_mode, house_target, phase, saved, now>>

\* An immediate-apply pass that gives way to a control pass in its body.
ApplyReturnsAtOnceGuarded == hvac_mode = "off" \/ running

\* if self.hvac_mode == "off": return, the one check at the head of
\* _async_apply_manual_target_center_sync.
ApplyReturnsAtOnce == hvac_mode = "off"

\* _async_apply_manual_target_center_sync(force_write_temp=True), likewise; at
\* its end it creates the task of a control pass.
ApplyStep(k) ==
    /\ CanStep(k)
    /\ tasks[k].kind = "apply"
    /\ LET t == tasks[k]
       IN  IF t.pc = "new" /\ ApplyReturnsAtOnce
           THEN /\ tasks' = Remove(tasks, k)
                /\ last' = [kind |-> "apply", ev |-> "end", from |-> 0, w |-> NoWrite, cleared |-> {}]
                /\ UNCHANGED <<runtime, pending>>
           ELSE \E r \in {IF t.pc = "new" THEN ApplyScan(1, "begin", NoneVal, TRUE)
                         ELSE IF t.pc = "mode" THEN ApplyScan(t.i, "mode", t.loc, TRUE)
                         ELSE ApplyScan(t.i + 1, "begin", NoneVal, TRUE)},
                       t0 \in {IF t.pc = "new" THEN now ELSE t.t0} :
                    /\ runtime' = IF t.pc = "temp"
                                  THEN [runtime EXCEPT ![t.i].last_change = t.t0]
                                  ELSE runtime
                    /\ tasks' = IF r.done
                                THEN Append(Remove(tasks, k), NewTask("loop"))
                                ELSE [Park(k, r) EXCEPT ![k].t0 = t0]
                    /\ pending' = Issue(r.w, pending)
                    /\ last' = StepLog(k, r)
    /\ UNCHANGED <<suspended_from, conf, world, options, hvac_mode, house_target, current_temperature,
                   running, phase, saved, now>>

\* _async_turn_off_all_actuators, likewise; at its end it averages the sensors.
TurnOffStep(k) ==
    /\ CanStep(k)
    /\ tasks[k].kind = "off"
    /\ LET t == tasks[k]
       IN  \E r \in {IF t.pc = "new" THEN TurnOffScan(1) ELSE TurnOffScan(t.i + 1)} :
           /\ tasks' = IF r.done THEN Remove(tasks, k) ELSE Park(k, r)
           /\ current_temperature' = IF r.done THEN MeanOf(OffTempAreas)
                                     ELSE current_temperature
           /\ pending' = Issue(r.w, pending)
           /\ last' = StepLog(k, r)
    /\ UNCHANGED <<suspended_from, conf, world, options, hvac_mode, house_target, runtime, running,
                   phase, saved, now>>

(* ----------------------------- environment ---------------------------- *)
\* A sensor reports another value, or becomes unavailable.
SensorChange(a, v) ==
    /\ sensor[a] # v
    /\ sensor' = [sensor EXCEPT ![a] = v]
    /\ last' = NoStep
    /\ UNCHANGED <<suspended_from, conf, dev, options, hvac_mode, house_target, current_temperature,
                   runtime, running, phase, saved, tasks, pending, now>>

\* Somebody operates a thermostat or a switch by hand.
DeviceChange(a, st) ==
    /\ areas[a].typ # ACTUATOR_NUMBER
    /\ st \in (IF areas[a].typ = ACTUATOR_CLIMATE THEN ClimateStates ELSE SwitchStates)
    /\ dev[a].state # st
    /\ dev' = [dev EXCEPT ![a].state = st]
    /\ last' = NoStep
    /\ UNCHANGED <<suspended_from, conf, sensor, options, hvac_mode, house_target, current_temperature,
                   runtime, running, phase, saved, tasks, pending, now>>

\* The host runs the accepted service calls of an actuator: its state reflects them.
Deliver(a) ==
    /\ pending[a] # NoCmd
    /\ LET c == pending[a]
           d == dev[a]
           d1 == IF c.mode # "none" THEN [d EXCEPT !.state = c.mode] ELSE d
           d2 == IF c.sp # NoneVal THEN [d1 EXCEPT !.temperature = c.sp] ELSE d1
           d3 == IF c.on # "none"
                 THEN [d2 EXCEPT !.state = IF c.on = "true" THEN "on" ELSE "off"]
                 ELSE d2
       IN  dev' = [dev EXCEPT ![a] = d3]
    /\ pending' = [pending EXCEPT ![a] = NoCmd]
    /\ last' = NoStep
    /\ UNCHANGED <<suspended_from, conf, sensor, options, hvac_mode, house_target, current_temperature,
                   runtime, running, phase, saved, tasks, now>>

AdvanceTime ==
    /\ now < MaxTime
    /\ now' = now + 1
    /\ last' = NoStep
    /\ UNCHANGED <<suspended_from, conf, world, options, hvac_mode, house_target, current_temperature,
                   runtime, running, phase, saved, tasks, pending>>

(* --------------------------- specification ---------------------------- *)
Lifecycle == Setup \/ Restore \/ Restart

Passes ==
    \/ Tick
    \/ \E k \in 1..Len(tasks) : LoopStep(k)
    \/ \E k \in 1..Len(tasks) : ApplyStep(k)
    \/ \E k \in 1..Len(tasks) : TurnOffStep(k)

\* The coordinator under every command of its entities, in a house whose sensors
\* and devices do not change.
Next ==
    \/ Lifecycle
    \/ \E m \in {"off", "heat", "cool"} : EntitySetHvacMode(m)
    \/ \E label \in PresetLabels : EntitySetPresetMode(label)
    \/ \E v \in TargetVals : EntitySetTemperature(v)
    \/ \E v \in OffsetVals : NumberSetValue(v)
    \/ Passes

Spec == Init /\ [][Next]_vars

\* Off and back: the mode commands, the include switches and devices operated by
\* hand, in a house of two actuators, the thermostat with or without an off mode.
InitOff ==
    \/ \E modes \in {{"off", "heat", "cool"}, {"heat", "cool"}} :
          Fresh(HouseAreas, HouseZones, DEFAULT_HOUSE_TARGET - 8, modes, "off")
    \/ Fresh(HouseNumberAreas, HouseZones, DEFAULT_HOUSE_TARGET - 8, {}, "off")

NextOff ==
    \/ Setup
    \/ Restore
    \/ \E m \in {"off", "heat", "cool"} : EntitySetHvacMode(m)
    \/ \E a \in AreaIds, b \in BOOLEAN : IncludeSwitch(a, b)
    \/ \E a \in AreaIds, st \in ClimateStates \cup SwitchStates : DeviceChange(a, st)
    \/ Passes

SpecOff == InitOff /\ [][NextOff]_vars

\* Immediate apply: the mode and target commands while sensors come and go, in a
\* house of two setpoint actuators whose thermostat offers heat and cool, or
\* heat_cool only, and is found off or heating.
ThermostatKinds ==
    { <<{"off", "heat", "cool"}, "off">>, <<{"off", "heat", "cool"}, "heat">>,
      <<{"off", "heat_cool"}, "off">> }

ApplySensorVals == {DEFAULT_HOUSE_TARGET, NoneVal}

InitApply ==
    \E t \in ThermostatKinds :
        Fresh(HouseSetpointAreas, HouseZones, DEFAULT_HOUSE_TARGET, t[1], t[2])

NextApply ==
    \/ Setup
    \/ Restore
    \/ \E m \in {"off", "heat", "cool"} : EntitySetHvacMode(m)
    \/ \E v \in TargetVals : EntitySetTemperature(v)
    \/ \E a \in AreaIds, v \in ApplySensorVals : SensorChange(a, v)
    \/ Passes

SpecApply == InitApply /\ [][NextApply]_vars

\* The banded controller on its inputs: a house of one setpoint area in any
\* configuration the options flow accepts, in heat or cool, its sensor and its
\* actuator reporting any of a few values; only the timer runs passes.
StepVals == {2, 4}
GainVals == {1, 2, 3}
BiasVals == {0, 1, 40}
MinVals == {DEFAULT_MIN_SETPOINT, 73}
MaxVals == {DEFAULT_MAX_SETPOINT, 95}
LimitVals == {DEFAULT_SETPOINT_LIMIT, 3}
MinChangeVals == {0, DEFAULT_MIN_CHANGE_SECONDS}
RoomVals == {76, 83, 84, 92, NoneVal}
SetpointVals == {NoneVal, 80, 84, 85, 96}

\* The coordinator set up on the areas A and the options opts, in the mode m, with
\* no task and no write yet, the sensors reading sens and the devices being devs.
Ready(A, Z, opts, m, sens, devs) ==
    /\ areas = A
    /\ zones = Z
    /\ options = opts
    /\ hvac_mode = m
    /\ house_target = opts.house_target
    /\ current_temperature = <<0, 0>>
    /\ runtime = [a \in 1..Len(A) |-> [included |-> TRUE, last_change |-> NoneVal]]
    /\ running = FALSE
    /\ phase = "ready"
    /\ saved = NoSaved
    /\ tasks = << >>
    /\ sensor = sens
    /\ dev = devs
    /\ pending = [a \in 1..Len(A) |-> NoCmd]
    /\ now = 0
    /\ last = NoStep
    /\ suspended_from = "unset"

InitNudge ==
    \E typ \in {ACTUATOR_CLIMATE, ACTUATOR_NUMBER}, m \in {"heat", "cool"},
       step \in StepVals, gain_num \in GainVals, bias \in BiasVals,
       lo \in MinVals, hi \in MaxVals, limit \in LimitVals, mcs \in MinChangeVals,
       room \in RoomVals, sp \in SetpointVals :
        Ready(<< [Area(typ, TRUE, TRUE, bias, gain_num, TRUE)
                     EXCEPT !.step = step, !.min_setpoint = lo, !.max_setpoint = hi] >>,
              << BuiltinZone("z1", 1) >>,
              [DefaultOptions EXCEPT !.setpoint_limit = limit, !.min_change_seconds = mcs],
              m,
              << room >>,
              << [InitDev(typ, {"off", "heat", "cool"}, m) EXCEPT !.temperature = sp] >>)

NextNudge ==
    \/ Tick
    \/ \E k \in 1..Len(tasks) : LoopStep(k)

SpecNudge == InitNudge /\ [][NextNudge]_vars

\* Repeated passes: a house of two actuators in heat or cool whose sensors and
\* devices never change, so that the devices reflect no command; the timer runs
\* passes while time goes by.
InitPass ==
    \E H \in {HouseAreas, HouseNumberAreas}, m \in {"heat", "cool"},
       mcs \in MinChangeVals, room \in {DEFAULT_HOUSE_TARGET - 8, DEFAULT_HOUSE_TARGET},
       inmode \in BOOLEAN, sw \in SwitchStates :
        Ready(H, HouseZones, [DefaultOptions EXCEPT !.min_change_seconds = mcs], m,
              [a \in 1..Len(H) |-> room],
              [a \in 1..Len(H) |->
                  IF H[a].typ = ACTUATOR_SWITCH
                  THEN [InitDev(H[a].typ, {}, "off") EXCEPT !.state = sw]
                  ELSE InitDev(H[a].typ, {"off", "heat", "cool"},
                               IF inmode THEN m ELSE "off")])

NextPass ==
    \/ Tick
    \/ \E k \in 1..Len(tasks) : LoopStep(k)
    \/ AdvanceTime

SpecPass == InitPass /\ [][NextPass]_vars

(* ------------------------------ properties ---------------------------- *)
\* The passes that are inside the body of _async_control_loop.
InBody == {k \in 1..Len(tasks) : tasks[k].kind = "loop" /\ tasks[k].pc # "new"}

\* C1: while active_zone_id is Suspend no step of any task issues an actuator
\* write (set_temperature, set_value, set_hvac_mode, turn_on, turn_off).
C1_NoWriteWhileSuspended == last.w # NoWrite => ~is_suspended

\* C2: at most one control pass is inside its body, _running tells whether one
\* is, and a pass that starts while another is inside its body ends at once: it
\* reads no sensor, issues no write, leaves _running alone and leaves no task.
C2_ReentrancyGuard ==
    /\ [](Cardinality(InBody) <= 1 /\ (running <=> InBody # {}))
    /\ [][\A k \in 1..Len(tasks) :
            (LoopStep(k) /\ tasks[k].pc = "new" /\ InBody # {}) =>
                /\ tasks' = Remove(tasks, k)
                /\ last'.w = NoWrite
                /\ UNCHANGED <<pending, current_temperature, runtime, running, options>>]_vars

\* A pass was dropped while another one is suspended at a service call.
C2_Dropped == last.ev = "drop" /\ InBody # {} /\ running

\* C6: the zone (or none) that was active when Suspend was entered is the active
\* zone again right after the next set_hvac_mode("heat") or set_hvac_mode("cool"),
\* whatever was restored or commanded in between.
C6_SuspendRoundTrip ==
    [][(suspended_from # "unset" /\ last'.ev = "set_hvac_mode"
          /\ hvac_mode' \in {"heat", "cool"})
        => options'.active_zone_id = suspended_from]_vars

\* The devices the watchdog reacts to: a switch that is on, a thermostat whose
\* state is anything but off, in an included area.
FoundOn ==
    \E a \in AreaIds :
        /\ runtime[a].included
        /\ \/ areas[a].typ = ACTUATOR_SWITCH /\ dev[a].state = "on"
           \/ areas[a].typ = ACTUATOR_CLIMATE /\ dev[a].state \notin {"off", "missing"}

\* A control pass that starts, and so ends, while hvac_mode is "off".
OffPass ==
    \/ Setup
    \/ \E k \in 1..Len(tasks) :
          LoopStep(k) /\ tasks[k].pc = "new" /\ ~running /\ hvac_mode = "off"

\* C7: a control pass in Off outside Suspend leaves active_zone_id Suspend exactly
\* when an included switch is on or an included thermostat is not off; excluded
\* areas and number entities do not count; in Suspend the pass keeps the options;
\* it never issues a write.
C7_AutoSuspend ==
    [][OffPass =>
          /\ (~is_suspended /\ FoundOn) => options'.active_zone_id = SUSPEND_ZONE_ID
          /\ (~is_suspended /\ ~FoundOn) => options' = options
          /\ is_suspended => options' = options
          /\ UNCHANGED <<hvac_mode, pending, dev>>]_vars

\* The watchdog has just entered Suspend on a switch that is on while the
\* thermostat of the house is excluded.
C7_Entered ==
    /\ last.ev = "auto_suspend"
    /\ is_suspended /\ hvac_mode = "off"
    /\ \E a \in AreaIds : areas[a].typ = ACTUATOR_SWITCH /\ dev[a].state = "on"
                          /\ runtime[a].included
    /\ \E a \in AreaIds : areas[a].typ = ACTUATOR_CLIMATE /\ ~runtime[a].included

\* The actuator that turn-off-all commands off: of an included area, a switch or
\* a thermostat whose hvac_modes hold "off".
OffTarget(a) ==
    /\ runtime[a].included
    /\ \/ areas[a].typ = ACTUATOR_SWITCH
       \/ /\ areas[a].typ = ACTUATOR_CLIMATE
          /\ dev[a].state # "missing"
          /\ "off" \in dev[a].hvac_modes

\* The off command of area a.
OffCommand(a) ==
    IF areas[a].typ = ACTUATOR_SWITCH
    THEN [area |-> a, op |-> "turn_off", val |-> NoneVal, mode |-> "none"]
    ELSE [area |-> a, op |-> "set_hvac_mode", val |-> NoneVal, mode |-> "off"]

\* C8: set_hvac_mode("off") creates the turn-off task; each of its steps commands
\* off the next included switch or thermostat with an off mode, skipping none,
\* whatever the area supports; it writes nothing else, and when no such actuator
\* is left it ends with current_temperature the mean of all included areas.
C8_TurnOffAll ==
    /\ [][(last'.ev = "set_hvac_mode" /\ hvac_mode' = "off")
            => tasks' = Append(tasks, NewTask("off"))]_vars
    /\ [][\A k \in 1..Len(tasks) : TurnOffStep(k) =>
            LET from == IF tasks[k].pc = "new" THEN 0 ELSE tasks[k].i
                left == {a \in AreaIds : a > from /\ OffTarget(a)}
            IN  IF left # {}
                THEN LET a == CHOOSE x \in left : \A y \in left : x <= y
                     IN  /\ last'.w = OffCommand(a)
                         /\ pending' = Issue(OffCommand(a), pending)
                         /\ tasks'[k].i = a
                         /\ \A b \in AreaIds \ {a} : pending'[b] = pending[b]
                ELSE /\ last'.w = NoWrite
                     /\ pending' = pending
                     /\ tasks' = Remove(tasks, k)
                     /\ current_temperature' =
                            MeanOf({a \in AreaIds : runtime[a].included})]_vars

\* Turn-off-all has ended in a house whose switch does not support the mode that
\* was selected meanwhile, after it commanded that switch off.
C8_TurnedOff ==
    /\ last.kind = "off" /\ last.ev = "end"
    /\ hvac_mode = "cool"
    /\ \E a \in AreaIds : /\ areas[a].typ = ACTUATOR_SWITCH /\ ~areas[a].supports_cool
                          /\ runtime[a].included /\ pending[a].on = "false"
    /\ current_temperature[2] = Cardinality({a \in AreaIds : runtime[a].included})

\* An included area with a setpoint actuator that supports the selected mode.
SetpointTarget(a) ==
    /\ runtime[a].included
    /\ areas[a].typ \in {ACTUATOR_CLIMATE, ACTUATOR_NUMBER}
    /\ \/ hvac_mode = "heat" /\ areas[a].supports_heat
       \/ hvac_mode = "cool" /\ areas[a].supports_cool

\* The setpoint areas an immediate-apply pass at position from has yet to write,
\* as stated and as found: only those whose sensor can be read.
ApplyLeftStated(from) == {a \in AreaIds : a > from /\ SetpointTarget(a)}
ApplyLeft(from) == {a \in ApplyLeftStated(from) : sensor[a] # NoneVal}

\* center = desired + bias rounded to step, as stated and as found: clamped to the
\* bounds of the device before it is rounded.
CenterStated(a) == RoundToStep(DesiredRoomForArea(a) + areas[a].bias, areas[a].step)
CenterWritten(a) ==
    RoundToStep(Max2(areas[a].min_setpoint,
                     Min2(areas[a].max_setpoint, DesiredRoomForArea(a) + areas[a].bias)),
                areas[a].step)

\* The mode a thermostat is forced to: the selected one, else heat_cool.
WantedMode(a) ==
    IF hvac_mode \in dev[a].hvac_modes THEN hvac_mode
    ELSE IF "heat_cool" \in dev[a].hvac_modes THEN "heat_cool"
    ELSE "none"

SetpointWrite(a, v) ==
    [area |-> a, op |-> IF areas[a].typ = ACTUATOR_CLIMATE THEN "set_temperature"
                        ELSE "set_value", val |-> v, mode |-> "none"]

\* Task k is an immediate-apply pass that takes a step past its mode check.
ApplyRuns(k) == ApplyStep(k) /\ ~(tasks[k].pc = "new" /\ hvac_mode = "off")

Position(k) == IF tasks[k].pc = "new" THEN 0 ELSE tasks[k].i

\* The step of immediate-apply pass k, given the areas it has to write and the
\* value it has to write to each: it takes the first of them, forces the mode of
\* a thermostat that is not in it and then writes the setpoint, whatever the
\* actuator reports, the room error and last_change; with none left it ends and
\* creates the one task of a control pass. Switches in between have their own
\* commands.
ApplyContract(k, Left(_), Value(_)) ==
    LET t == tasks[k]
        w == last'.w
        left == Left(Position(k))
        a == CHOOSE x \in left : \A y \in left : x <= y
        force == /\ areas[a].typ = ACTUATOR_CLIMATE
                 /\ WantedMode(a) # "none"
                 /\ dev[a].state # WantedMode(a)
    IN  /\ IF w # NoWrite /\ areas[w.area].typ = ACTUATOR_SWITCH
           THEN t.pc # "mode" /\ w.area > Position(k) /\ \A b \in left : w.area < b
           ELSE IF t.pc = "mode" THEN w = SetpointWrite(t.i, t.loc)
           ELSE IF left = {} THEN w = NoWrite
           ELSE IF force
           THEN /\ w = [area |-> a, op |-> "set_hvac_mode", val |-> NoneVal,
                        mode |-> WantedMode(a)]
                /\ tasks'[k].pc = "mode" /\ tasks'[k].i = a /\ tasks'[k].loc = Value(a)
           ELSE w = SetpointWrite(a, Value(a))
        /\ IF w = NoWrite
           THEN tasks' = Append(Remove(tasks, k), NewTask("loop"))
           ELSE /\ Len(tasks') = Len(tasks)
                /\ \A j \in 1..Len(tasks) : j # k => tasks'[j] = tasks[j]
                /\ tasks'[k].kind = "apply"

\* C9: a set_hvac_mode to heat or cool that changes hvac_mode leaves last_change
\* of every area None and creates the immediate-apply task in the same step; a
\* step of an immediate-apply pass skips no included, mode-supporting setpoint
\* area with a readable sensor, and after forcing the mode it writes the setpoint.
C9_ModeChange ==
    /\ [][(last'.ev = "set_hvac_mode" /\ hvac_mode' \in {"heat", "cool"}
             /\ hvac_mode' # hvac_mode)
            => /\ \A a \in AreaIds : runtime'[a].last_change = NoneVal
               /\ tasks' = Append(tasks, NewTask("apply"))]_vars
    /\ [][\A k \in 1..Len(tasks) : ApplyRuns(k) =>
            LET w == last'.w
                left == ApplyLeft(Position(k))
            IN  IF tasks[k].pc = "mode"
                THEN w.area = tasks[k].i /\ w.op \in {"set_temperature", "set_value"}
                ELSE left # {} =>
                        /\ w # NoWrite
                        /\ \A b \in left : w.area <= b
                        /\ w.area \in left =>
                              w.op \in {"set_temperature", "set_value", "set_hvac_mode"}]_vars

\* The mode has just changed to cool, which cleared the time of a write.
C9_Cleared ==
    /\ last.ev = "set_hvac_mode" /\ last.cleared # {}
    /\ hvac_mode = "cool"
    /\ \A a \in AreaIds : runtime[a].last_change = NoneVal
    /\ Len(tasks) > 0 /\ tasks[Len(tasks)] = NewTask("apply")

\* C10 as stated: every included, mode-supporting setpoint actuator is written
\* desired + bias rounded to step.
C10_ApplyAsStated ==
    [][\A k \in 1..Len(tasks) :
          ApplyRuns(k) => ApplyContract(k, ApplyLeftStated, CenterStated)]_vars

\* C10: every included, mode-supporting setpoint actuator of an area whose sensor
\* can be read is written desired + bias clamped to the bounds of the device and
\* then rounded to step, whatever it reports and whatever last_change is; a
\* thermostat that is not in the wanted mode is forced to it first; an area with
\* an unreadable sensor is passed over; at its end the pass creates exactly one
\* task of a control pass.
C10_ImmediateApply ==
    [][\A k \in 1..Len(tasks) :
          ApplyRuns(k) => ApplyContract(k, ApplyLeft, CenterWritten)]_vars

\* An immediate-apply pass has written the value the number entity already reports,
\* with no room error, within min_change_seconds of the write before.
C10_Forced ==
    /\ last.kind = "apply" /\ last.w.op = "set_value"
    /\ last.w.val = dev[last.w.area].temperature
    /\ sensor[last.w.area] = DesiredRoomForArea(last.w.area)
    /\ runtime[last.w.area].last_change # NoneVal
    /\ now - runtime[last.w.area].last_change < options.min_change_seconds

\* The setpoint areas whose sensor can be read, and what the banded controller
\* computes for them: center, the band as stated and as found (each end clamped
\* to the bounds of the device), and the target.
Banded == {a \in AreaIds : areas[a].typ \in {ACTUATOR_CLIMATE, ACTUATOR_NUMBER}
                           /\ sensor[a] # NoneVal}
Center(a) == DesiredRoomForArea(a) + areas[a].bias
StatedLo(a) == Max2(Center(a) - Limit, areas[a].min_setpoint)
StatedHi(a) == Min2(Center(a) + Limit, areas[a].max_setpoint)
BandLo(a) == Max2(areas[a].min_setpoint, Min2(areas[a].max_setpoint, Center(a) - Limit))
BandHi(a) == Max2(areas[a].min_setpoint, Min2(areas[a].max_setpoint, Center(a) + Limit))
TargetOf(a) == BandedTarget(a, sensor[a], DesiredRoomForArea(a), Limit, Unwind)

\* The control passes that wait for their setpoint write to return, target_sp in
\* hand.
Nudging == {k \in 1..Len(tasks) : tasks[k].kind = "loop" /\ tasks[k].pc = "temp"
                                  /\ tasks[k].loc # NoneVal}

\* C5 as stated: the target lies in [max(center - limit, min), min(center + limit, max)].
C5_BandAsStated ==
    \A k \in Nudging : /\ StatedLo(tasks[k].i) <= tasks[k].loc
                       /\ tasks[k].loc <= StatedHi(tasks[k].i)

\* T is a multiple of step within half a step of [lo, hi], and inside it when lo
\* and hi are multiples of step.
RoundedInto(T, lo, hi, step) ==
    /\ T % step = 0
    /\ 2 * (lo - T) <= step
    /\ 2 * (T - hi) <= step
    /\ (lo % step = 0 /\ hi % step = 0) => (lo <= T /\ T <= hi)

\* C5: the target is a multiple of step within half a step of the band
\* [clamp(center - limit), clamp(center + limit)], both clamped to [min, max], and
\* inside the band when its ends are multiples of step; that band is never empty
\* and is the stated one whenever the stated one is not empty.
C5_BandContainment ==
    /\ \A a \in Banded :
          /\ RoundedInto(TargetOf(a), BandLo(a), BandHi(a), areas[a].step)
          /\ BandLo(a) <= BandHi(a)
          /\ StatedLo(a) <= StatedHi(a) => (BandLo(a) = StatedLo(a) /\ BandHi(a) = StatedHi(a))
    /\ \A k \in Nudging :
          RoundedInto(tasks[k].loc, BandLo(tasks[k].i), BandHi(tasks[k].i),
                      areas[tasks[k].i].step)

\* A pass is nudging toward a target that rounding has put outside the band.
C5_RoundedOut ==
    \E k \in Nudging : \/ tasks[k].loc < BandLo(tasks[k].i)
                       \/ tasks[k].loc > BandHi(tasks[k].i)

\* The setpoint the actuator of area a reports.
Reported(a) ==
    IF areas[a].typ = ACTUATOR_NUMBER
    THEN (IF dev[a].state = "ok" THEN dev[a].temperature ELSE NoneVal)
    ELSE (IF dev[a].state = "missing" THEN NoneVal ELSE dev[a].temperature)

\* Area a is due a nudge in a control pass: included, supporting the mode, its
\* sensor readable, not rate-limited, its thermostat in the selected mode, its
\* reported setpoint known and not the target, its gain positive.
NudgeDue(a) ==
    /\ hvac_mode \in {"heat", "cool"} /\ ~is_suspended
    /\ SetpointTarget(a) /\ a \in Banded
    /\ areas[a].typ = ACTUATOR_CLIMATE => dev[a].state = hvac_mode
    /\ \/ runtime[a].last_change = NoneVal
       \/ now - runtime[a].last_change >= options.min_change_seconds
    /\ Reported(a) # NoneVal /\ Reported(a) # TargetOf(a)
    /\ areas[a].gain_num > 0

SetpointOps == {"set_temperature", "set_value"}

PendingOf(w) ==
    IF w.op \in SetpointOps THEN pending[w.area].sp
    ELSE IF w.op = "set_hvac_mode" THEN pending[w.area].mode
    ELSE pending[w.area].on

\* What the write w leaves pending.
CommandOf(w) ==
    IF w.op \in SetpointOps THEN w.val
    ELSE IF w.op = "set_hvac_mode" THEN w.mode
    ELSE IF w.op = "turn_on" THEN "true" ELSE "false"

NothingPending(w) == PendingOf(w) = (IF w.op \in SetpointOps THEN NoneVal ELSE "none")

\* C3 as stated: where sensors and devices never change, a pass writes nothing
\* that an earlier pass has written: the second of two invocations on the same
\* readings issues no write.
C3_IdempotentAsStated ==
    [][\A k \in 1..Len(tasks) :
          (LoopStep(k) /\ last'.w # NoWrite) => NothingPending(last'.w)]_vars

\* C3: where sensors, devices, configuration and commands never change, a pass
\* writes no setpoint to an area whose setpoint was written less than
\* min_change_seconds before, and a write it repeats carries the value it carried
\* before.
C3_Idempotent ==
    [][\A k \in 1..Len(tasks) :
          (LoopStep(k) /\ last'.w # NoWrite) =>
              LET w == last'.w
                  rt == runtime[w.area]
              IN  /\ w.op \in SetpointOps =>
                        \/ rt.last_change = NoneVal
                        \/ now - rt.last_change >= options.min_change_seconds
                  /\ ~NothingPending(w) => CommandOf(w) = PendingOf(w)]_vars

\* A pass has started, has passed over the setpoint it wrote less than
\* min_change_seconds before, and has turned on again the switch that is still off.
C3_Repeated ==
    /\ last.kind = "loop" /\ last.from = 0 /\ last.w.op = "turn_on"
    /\ dev[last.w.area].state = "off"
    /\ \E b \in AreaIds :
          /\ b < last.w.area
          /\ pending[b].sp # NoneVal
          /\ runtime[b].last_change # NoneVal
          /\ now - runtime[b].last_change < options.min_change_seconds

(* ------------------------- offset, zones, options --------------------- *)
\* The offset the coordinator is handed: the slider's values and, for the method
\* itself, a negative one.
OffsetCallVals == OffsetVals \cup {0 - DEFAULT_ACTIVE_ZONE_OFFSET}

\* Offset changes between passes: a house in heat with one of its zones active,
\* the thermostat heating, the switch off; offsets are set while the timer runs
\* passes and the host carries out their commands.
InitOffset ==
    \E z \in {"z1", "z2"}, room \in {DEFAULT_HOUSE_TARGET - 8, DEFAULT_HOUSE_TARGET} :
        Ready(HouseAreas, HouseZones,
              [DefaultOptions EXCEPT !.active_zone_id = z, !.last_non_suspend_zone_id = z],
              "heat",
              [a \in 1..Len(HouseAreas) |-> room],
              [a \in 1..Len(HouseAreas) |->
                  InitDev(HouseAreas[a].typ, {"off", "heat", "cool"}, "heat")])

NextOffset ==
    \/ \E v \in OffsetCallVals : NumberSetValue(v)
    \/ Tick
    \/ \E k \in 1..Len(tasks) : LoopStep(k)
    \/ \E a \in AreaIds : Deliver(a)
    \/ AdvanceTime

SpecOffset == InitOffset /\ [][NextOffset]_vars

\* What an area is to reach under the options as they are persisted now.
DesiredNow(a) ==
    house_target + (IF AreaInActiveZone(a) THEN options.active_zone_offset ELSE 0)

\* C11: async_set_active_zone_offset(v) leaves max(0, v) as active_zone_offset and
\* every other option, hvac_mode, house_target and every last_change as they were;
\* it issues no write and creates no task; the control pass that runs next takes
\* the offset as it is persisted then: its setpoint target and its switch command
\* are those of house_target + active_zone_offset for the areas of the active zone.
C11_OffsetNextPass ==
    /\ [][\A v \in OffsetCallVals : NumberSetValue(v) =>
            /\ options' = [options EXCEPT !.active_zone_offset = IF v < 0 THEN 0 ELSE v]
            /\ last'.w = NoWrite
            /\ UNCHANGED <<tasks, pending, hvac_mode, house_target, runtime, running, dev,
                           current_temperature>>]_vars
    /\ [][\A k \in 1..Len(tasks) : (LoopStep(k) /\ last'.w # NoWrite) =>
            LET w == last'.w
                a == w.area
            IN  /\ (w.op \in SetpointOps /\ Reported(a) # NoneVal) =>
                      tasks'[k].loc = BandedTarget(a, sensor[a], DesiredNow(a), Limit, Unwind)
                /\ w.op = "turn_on" => sensor[a] < DesiredNow(a) - options.deadband
                /\ w.op = "turn_off" => sensor[a] > DesiredNow(a) + options.deadband]_vars

\* After the offset was set to 1.0 a control pass has nudged the thermostat of the
\* active zone toward the target of house_target + 1.0, and no task but that pass
\* has run since the house was set up.
C11_NextPassUsesOffset ==
    \E k \in Nudging :
        /\ last.kind = "loop" /\ last.w.op = "set_temperature" /\ last.w.area = tasks[k].i
        /\ AreaInActiveZone(tasks[k].i)
        /\ options.active_zone_offset = 4
        /\ sensor[tasks[k].i] = DEFAULT_HOUSE_TARGET
        /\ tasks[k].loc = DEFAULT_HOUSE_TARGET + 4 + DEFAULT_SETPOINT_LIMIT \div 2

\* A zone the operator composed of the areas ids.
CustomZone(zid, ids) == [id |-> zid, area_ids |-> ids, builtin |-> FALSE, tied_area_id |-> 0]

\* The stored zones: the built-in ones; after the switch area and its zone were
\* taken out of the zones while a custom zone still lists a third area that is
\* configured no longer; one custom zone of both areas.
ZoneLists ==
    { HouseZones,
      << BuiltinZone("z1", 1), CustomZone("z3", {1, 3}) >>,
      << CustomZone("z3", {1, 2}) >> }

\* Zone resolution: a house in heat under every stored zone list, the active zone
\* null, Suspend, a zone of the list or one that was removed from it.
InitZone ==
    \E Z \in ZoneLists, z \in {NullZone, SUSPEND_ZONE_ID, "z1", "z2", "z3"},
       o \in OffsetVals \cup {0}, room \in {DEFAULT_HOUSE_TARGET - 8, DEFAULT_HOUSE_TARGET} :
        Ready(HouseAreas, Z,
              [DefaultOptions EXCEPT !.active_zone_id = z, !.active_zone_offset = o,
                  !.last_non_suspend_zone_id = IF z = SUSPEND_ZONE_ID THEN NullZone ELSE z],
              "heat",
              [a \in 1..Len(HouseAreas) |-> room],
              [a \in 1..Len(HouseAreas) |->
                  InitDev(HouseAreas[a].typ, {"off", "heat", "cool"}, "heat")])

NextZone ==
    \/ Tick
    \/ \E k \in 1..Len(tasks) : LoopStep(k)
    \/ \E a \in AreaIds : Deliver(a)
    \/ AdvanceTime

SpecZone == InitZone /\ [][NextZone]_vars

\* The area a is listed by a stored zone that the active zone id names.
InNamedZone(a) ==
    /\ options.active_zone_id \notin {NullZone, SUSPEND_ZONE_ID}
    /\ \E k \in 1..Len(zones) :
          zones[k].id = options.active_zone_id /\ a \in zones[k].area_ids

\* The desired temperature of the area a as stated of the zones.
ZoneDesired(a) ==
    IF InNamedZone(a) THEN house_target + options.active_zone_offset ELSE house_target

\* C12: the desired temperature of an area is house_target + active_zone_offset
\* when active_zone_id names a stored zone that lists the area and house_target in
\* every other case (no active zone, Suspend, a zone that is stored no longer, an
\* area the zone does not list); a zone that lists an area that is configured no
\* longer boosts its present members: every write of a control pass is computed
\* from that desired temperature.
C12_ZoneResolution ==
    /\ [](\A a \in AreaIds : DesiredRoomForArea(a) = ZoneDesired(a))
    /\ [][\A k \in 1..Len(tasks) : (LoopStep(k) /\ last'.w # NoWrite) =>
            LET w == last'.w
                a == w.area
            IN  /\ (w.op \in SetpointOps /\ Reported(a) # NoneVal) =>
                      tasks'[k].loc = BandedTarget(a, sensor[a], ZoneDesired(a), Limit, Unwind)
                /\ w.op = "turn_on" => sensor[a] < ZoneDesired(a) - options.deadband
                /\ w.op = "turn_off" => sensor[a] > ZoneDesired(a) + options.deadband]_vars

\* The active zone lists the thermostat's area and an area that is configured no
\* longer: a control pass has nudged the thermostat toward the target of
\* house_target + 1.0.
C12_StaleMemberBoosted ==
    \E k \in Nudging, j \in 1..Len(zones) :
        /\ last.kind = "loop" /\ last.w.op = "set_temperature" /\ last.w.area = tasks[k].i
        /\ zones[j].id = options.active_zone_id
        /\ tasks[k].i \in zones[j].area_ids
        /\ \E b \in zones[j].area_ids : b \notin AreaIds
        /\ options.active_zone_offset = 4
        /\ sensor[tasks[k].i] = DEFAULT_HOUSE_TARGET
        /\ tasks[k].loc = DEFAULT_HOUSE_TARGET + 4 + DEFAULT_SETPOINT_LIMIT \div 2

\* entry.options: the stored areas and zones with the other options.
EntryOptions(o, A, Z) == [areas |-> A, zones |-> Z] @@ o

\* _strip_runtime: the options without house_target, active_zone_id and
\* active_zone_offset.
StripRuntime(opts) ==
    [key \in (DOMAIN opts) \ {"house_target", "active_zone_id", "active_zone_offset"} |->
        opts[key]]

\* _async_update_listener on the options old it stored last and the entry's
\* options new: what it stores and whether it goes on to reload the entry.
UpdateListener(old, new) ==
    [store |-> new, reload |-> StripRuntime(old) # StripRuntime(new)]

\* C13: no change of the options that a command of the house target, of the active
\* zone (a zone, none, Suspend, the auto-suspend and the exit from Suspend) or of
\* the offset makes leads the update listener to reload the entry: once the
\* listener is registered, it finds the options it stored before the step and the
\* options after it equal outside house_target, active_zone_id, active_zone_offset.
C13_NoReloadOnRuntimeChange ==
    [][phase # "constructed" =>
          ~UpdateListener(EntryOptions(options, areas, zones),
                          EntryOptions(options', areas', zones')).reload]_vars

SwitchSensorVals == {DEFAULT_HOUSE_TARGET - 8, DEFAULT_HOUSE_TARGET + 8}

\* Switches under both passes: a house of two actuators in heat or cool, the switch
\* found on or off; targets are set and the timer runs passes while the sensors
\* change, the host carries out the commands and time goes by.
InitSwitch ==
    \E H \in {HouseAreas, HouseNumberAreas}, m \in {"heat", "cool"}, sw \in SwitchStates :
        Ready(H, HouseZones, DefaultOptions, m,
              [a \in 1..Len(H) |-> DEFAULT_HOUSE_TARGET - 8],
              [a \in 1..Len(H) |->
                  IF H[a].typ = ACTUATOR_SWITCH
                  THEN [InitDev(H[a].typ, {}, "off") EXCEPT !.state = sw]
                  ELSE InitDev(H[a].typ, {"off", "heat", "cool"}, m)])

NextSwitch ==
    \/ \E v \in TargetVals : EntitySetTemperature(v)
    \/ Tick
    \/ \E k \in 1..Len(tasks) : LoopStep(k)
    \/ \E k \in 1..Len(tasks) : ApplyStep(k)
    \/ \E a \in AreaIds, v \in SwitchSensorVals : SensorChange(a, v)
    \/ \E a \in AreaIds : Deliver(a)
    \/ AdvanceTime

SpecSwitch == InitSwitch /\ [][NextSwitch]_vars

\* The command the hysteresis calls for at the switch of the area a.
SwitchDue(a) ==
    LET on == dev[a].state = "on"
        below == sensor[a] < ZoneDesired(a) - options.deadband
        above == sensor[a] > ZoneDesired(a) + options.deadband
    IN  IF dev[a].state = "missing" THEN "none"
        ELSE IF hvac_mode = "heat"
        THEN (IF below /\ ~on THEN "turn_on" ELSE IF above /\ on THEN "turn_off" ELSE "none")
        ELSE (IF above /\ ~on THEN "turn_on" ELSE IF below /\ on THEN "turn_off" ELSE "none")

\* The switch areas a pass handles: included, supporting the mode, sensor readable.
SwitchHandled(a) ==
    /\ areas[a].typ = ACTUATOR_SWITCH
    /\ runtime[a].included
    /\ AreaSupportsMode(a)
    /\ sensor[a] # NoneVal

\* The task k is a pass that goes through the areas in its next step.
GoesOn(k) ==
    /\ tasks[k].kind \in {"loop", "apply"}
    /\ tasks[k].pc = "new" =>
          /\ hvac_mode # "off"
          /\ tasks[k].kind = "loop" => ~running /\ ~is_suspended

Handled(a) == runtime[a].included /\ AreaSupportsMode(a)

\* The first area the pass k comes to in its next step, and the areas it goes by
\* in the step it has taken: those before the area it writes to, all that are left
\* when it ends.
StartOf(k) ==
    IF tasks[k].pc = "new" THEN 1
    ELSE IF tasks[k].pc = "mode" THEN tasks[k].i
    ELSE tasks[k].i + 1
GoneBy(k) ==
    StartOf(k)..((IF last'.ev = "end" THEN Len(areas) + 1 ELSE last'.w.area) - 1)

\* The pass k reads the sensor of the area a in its next step; an immediate-apply
\* pass that returns from forcing the mode of a has read it before.
ReadsNow(k, a) ==
    ~(tasks[k].kind = "apply" /\ tasks[k].pc = "mode" /\ tasks[k].i = a)

\* The pass k has nothing to write to the area a, whose sensor it can read.
NothingDue(k, a) ==
    IF areas[a].typ = ACTUATOR_SWITCH THEN SwitchDue(a) = "none"
    ELSE /\ tasks[k].kind = "loop"
         /\ \/ RateLimited(a)
            \/ ~BandedNudge(a, ActuatorRead(a).setpoint, sensor[a], ZoneDesired(a),
                            options.deadband, Limit, Unwind).changed

\* C16 as stated: a pass issues no write of any kind to an area whose sensor it
\* finds missing or unparseable.
C16_SkipsAsStated ==
    [][\A k \in 1..Len(tasks) :
          (GoesOn(k) /\ (LoopStep(k) \/ ApplyStep(k)) /\ last'.w # NoWrite
              /\ ReadsNow(k, last'.w.area)) =>
                sensor[last'.w.area] # NoneVal]_vars

\* C16: to an area whose sensor it finds missing or unparseable a pass issues no
\* setpoint write and no switch command, and an immediate-apply pass no mode write
\* either; a control pass forces the mode of its thermostat before it reads the
\* sensor. The pass goes on: it goes by an area it handles only when it cannot read
\* its sensor or has nothing to write to it, and a control pass leaves no
\* thermostat it goes by in another mode than the one it forces.
C16_Skips ==
    [][\A k \in 1..Len(tasks) :
          (GoesOn(k) /\ (LoopStep(k) \/ ApplyStep(k))) =>
              /\ (last'.w # NoWrite /\ ReadsNow(k, last'.w.area)
                     /\ sensor[last'.w.area] = NoneVal) =>
                    tasks[k].kind = "loop" /\ last'.w.op = "set_hvac_mode"
              /\ \A a \in GoneBy(k) :
                    (Handled(a) /\ ReadsNow(k, a)) =>
                        /\ sensor[a] # NoneVal => NothingDue(k, a)
                        /\ (tasks[k].kind = "loop" /\ areas[a].typ = ACTUATOR_CLIMATE
                               /\ ~(tasks[k].pc = "mode" /\ tasks[k].i = a)) =>
                              ForceClimateMode(a) = "none"]_vars

\* A pass has gone by the thermostat's area, whose sensor cannot be read, and has
\* written the setpoint of the next area.
C16_Skipped ==
    /\ last.kind \in {"loop", "apply"} /\ last.from = 0
    /\ last.w.op = "set_value" /\ last.w.area = 2
    /\ areas[1].typ = ACTUATOR_CLIMATE /\ Handled(1) /\ sensor[1] = NoneVal

(* --------------------------- failing calls ---------------------------- *)
\* What the pass k does next: the areas loop from its position to its next
\* service call or its end.
NextCall(k) ==
    IF tasks[k].kind = "loop"
    THEN (IF tasks[k].pc = "new" THEN LoopScan(1, "begin")
          ELSE IF tasks[k].pc = "mode" THEN LoopScan(tasks[k].i, "mode")
          ELSE LoopScan(tasks[k].i + 1, "begin"))
    ELSE (IF tasks[k].pc = "new" THEN ApplyScan(1, "begin", NoneVal, TRUE)
          ELSE IF tasks[k].pc = "mode" THEN ApplyScan(tasks[k].i, "mode", tasks[k].loc, TRUE)
          ELSE ApplyScan(tasks[k].i + 1, "begin", NoneVal, TRUE))

\* A raising call in a control loop that has no finally clause: _running stays set.
CallRaisesWithoutFinally(k) ==
    /\ CanStep(k)
    /\ tasks[k].kind \in {"loop", "apply"}
    /\ tasks[k].pc = "new" => hvac_mode # "off"
    /\ (tasks[k].pc = "new" /\ tasks[k].kind = "loop") => ~ReentrancyGuard /\ ~is_suspended
    /\ \E r \in {NextCall(k)} :
          /\ r.w # NoWrite
          /\ last' = [kind |-> tasks[k].kind, ev |-> "raise", from |-> r.w.area,
                      w |-> NoWrite, cleared |-> {}]
    /\ current_temperature' = IF tasks[k].kind = "loop" /\ tasks[k].pc = "new"
                              THEN MeanOf(LoopTempAreas) ELSE current_temperature
    /\ runtime' = IF tasks[k].pc = "temp"
                  THEN [runtime EXCEPT ![tasks[k].i].last_change =
                           IF tasks[k].kind = "loop" THEN now ELSE tasks[k].t0]
                  ELSE runtime
    /\ running' = IF tasks[k].kind = "loop" THEN TRUE ELSE running
    /\ tasks' = Remove(tasks, k)
    /\ UNCHANGED <<suspended_from, conf, world, options, hvac_mode, house_target, phase,
                   saved, pending, now>>

\* The service call a pass comes to raises (the service is not registered, say):
\* no handler and no areas loop catches it, so it ends the pass; the finally
\* clause of _async_control_loop clears _running, and an immediate-apply pass does
\* not get to create the control pass. The log keeps the area of the call in from.
CallRaises(k) ==
    /\ CanStep(k)
    /\ tasks[k].kind \in {"loop", "apply"}
    /\ tasks[k].pc = "new" => hvac_mode # "off"
    /\ (tasks[k].pc = "new" /\ tasks[k].kind = "loop") => ~ReentrancyGuard /\ ~is_suspended
    /\ \E r \in {NextCall(k)} :
          /\ r.w # NoWrite
          /\ last' = [kind |-> tasks[k].kind, ev |-> "raise", from |-> r.w.area,
                      w |-> NoWrite, cleared |-> {}]
    /\ current_temperature' = IF tasks[k].kind = "loop" /\ tasks[k].pc = "new"
                              THEN MeanOf(LoopTempAreas) ELSE current_temperature
    /\ runtime' = IF tasks[k].pc = "temp"
                  THEN [runtime EXCEPT ![tasks[k].i].last_change =
                           IF tasks[k].kind = "loop" THEN now ELSE tasks[k].t0]
                  ELSE runtime
    /\ running' = IF tasks[k].kind = "loop" THEN FALSE ELSE running
    /\ tasks' = Remove(tasks, k)
    /\ UNCHANGED <<suspended_from, conf, world, options, hvac_mode, house_target, phase,
                   saved, pending, now>>

\* Passes whose service calls may raise, in the houses with a switch.
NextFail ==
    \/ \E v \in TargetVals : EntitySetTemperature(v)
    \/ Tick
    \/ \E k \in 1..Len(tasks) : LoopStep(k)
    \/ \E k \in 1..Len(tasks) : ApplyStep(k)
    \/ \E k \in 1..Len(tasks) : CallRaises(k)
    \/ \E a \in AreaIds : Deliver(a)

SpecFail == InitSwitch /\ [][NextFail]_vars

\* C17: when the handling of an area raises in a control pass or an
\* immediate-apply pass, every later area is still processed in that pass: behind
\* the area whose call raised, no area that the pass handles and whose sensor it
\* can read is left with a write the pass had to issue to it.
C17_FailureIsolation ==
    [][\A k \in 1..Len(tasks) : CallRaises(k) =>
          \A b \in (last'.from + 1)..Len(areas) :
              (Handled(b) /\ sensor[b] # NoneVal) =>
                  /\ NothingDue(k, b)
                  /\ areas[b].typ = ACTUATOR_CLIMATE => ForceClimateMode(b) = "none"]_vars

(* ------------------------ passes side by side ------------------------- *)
\* C18: the guard of _running covers the control passes only. An immediate-apply
\* pass neither looks at it nor sets it: it starts whatever passes are in flight
\* and, with a setpoint area left to write, issues a write in its first step; so
\* an immediate-apply pass and a control pass come to wait side by side, each on
\* its own setpoint write to the same actuator.
C18_ApplyUnguarded ==
    [][\A k \in 1..Len(tasks) : ApplyStep(k) =>
          /\ running' = running
          /\ (tasks[k].pc = "new" /\ hvac_mode # "off" /\ ApplyLeft(0) # {}) =>
                last'.w # NoWrite]_vars

\* A control pass and an immediate-apply pass both wait for their setpoint write
\* to the same actuator to return.
C18_SideBySide ==
    \E k, j \in 1..Len(tasks) :
        /\ tasks[k].kind = "loop" /\ tasks[k].pc = "temp"
        /\ tasks[j].kind = "apply" /\ tasks[j].pc = "temp"
        /\ tasks[j].i = tasks[k].i
        /\ areas[tasks[k].i].typ = ACTUATOR_CLIMATE
        /\ pending[tasks[k].i].sp # NoneVal
        /\ running

(* ------------------------ unreadable actuators ------------------------ *)
\* The actuator of the area a is on: a switch that reads on, a thermostat that
\* reports an operating mode other than off.
ReallyOn(a) ==
    \/ areas[a].typ = ACTUATOR_SWITCH /\ dev[a].state = "on"
    \/ /\ areas[a].typ = ACTUATOR_CLIMATE
       /\ dev[a].state \notin {"off", "missing", "unavailable", "unknown"}

\* C19: in the mode off the watchdog moves active_zone_id to Suspend only because
\* of a switch that reads on or a thermostat that reports an operating mode other
\* than off, never because of an actuator whose state is missing, unavailable or
\* unknown.
C19_UnreadableCountsAsOff ==
    [][(~is_suspended /\ is_suspended') => \E a \in AreaIds : ReallyOn(a)]_vars

(* ----------------------------- mode forcing --------------------------- *)
\* Thermostats by the modes they list and the mode they report: the requested
\* mode listed, heat_cool listed instead, neither; each lists auto.
ModeKinds ==
    { <<{"off", "heat", "cool", "auto"}, "auto">>,
      <<{"off", "heat_cool", "auto"}, "off">>,
      <<{"off", "heat_cool", "auto"}, "heat_cool">>,
      <<{"off", "heat", "auto"}, "heat">>,
      <<{"off", "auto"}, "auto">> }

\* Mode forcing: the house of two setpoint actuators in heat or cool over the
\* kinds of thermostats; the mode is switched between heat and cool and the timer
\* runs passes while the host carries out the commands.
InitMode ==
    \E t \in ModeKinds, m \in {"heat", "cool"} :
        Ready(HouseSetpointAreas, HouseZones, DefaultOptions, m,
              [a \in 1..Len(HouseSetpointAreas) |-> DEFAULT_HOUSE_TARGET - 8],
              [a \in 1..Len(HouseSetpointAreas) |->
                  InitDev(HouseSetpointAreas[a].typ, t[1], t[2])])

NextMode ==
    \/ \E m \in {"heat", "cool"} : EntitySetHvacMode(m)
    \/ Tick
    \/ \E k \in 1..Len(tasks) : LoopStep(k)
    \/ \E k \in 1..Len(tasks) : ApplyStep(k)
    \/ \E a \in AreaIds : Deliver(a)

SpecMode == InitMode /\ [][NextMode]_vars

\* C20: a pass that forces heat or cool writes to a thermostat the mode itself
\* where the device lists it, else heat_cool where it lists that, and no mode
\* otherwise, in particular never auto; it writes a mode only where the device
\* reports another one; and a pass that comes to a thermostat for which no mode
\* can be selected goes on to its setpoint: an immediate-apply pass writes it, a
\* control pass goes by only when it has no nudge to write.
C20_NeverAuto ==
    [][\A k \in 1..Len(tasks) : (GoesOn(k) /\ (LoopStep(k) \/ ApplyStep(k))) =>
          /\ last'.w.op = "set_hvac_mode" =>
                /\ hvac_mode \in {"heat", "cool"}
                /\ areas[last'.w.area].typ = ACTUATOR_CLIMATE
                /\ last'.w.mode = WantedMode(last'.w.area)
                /\ last'.w.mode \in {hvac_mode, "heat_cool"}
                /\ last'.w.mode # dev[last'.w.area].state
          /\ \A a \in AreaIds :
                (/\ tasks[k].kind = "apply" /\ tasks[k].pc # "mode"
                 /\ ApplyLeft(Position(k)) # {}
                 /\ a = CHOOSE x \in ApplyLeft(Position(k)) :
                            \A y \in ApplyLeft(Position(k)) : x <= y
                 /\ areas[a].typ = ACTUATOR_CLIMATE /\ WantedMode(a) = "none") =>
                    last'.w = SetpointWrite(a, CenterWritten(a))
          /\ \A a \in GoneBy(k) :
                (/\ tasks[k].kind = "loop" /\ Handled(a) /\ sensor[a] # NoneVal
                 /\ areas[a].typ = ACTUATOR_CLIMATE /\ WantedMode(a) = "none") =>
                    NothingDue(k, a)]_vars

\* An immediate-apply pass has written the setpoint of a thermostat that lists
\* auto and neither the mode of the house nor heat_cool; no mode was written to it.
C20_SetpointWithoutMode ==
    /\ last.kind = "apply" /\ last.w.op = "set_temperature"
    /\ areas[last.w.area].typ = ACTUATOR_CLIMATE
    /\ "auto" \in dev[last.w.area].hvac_modes
    /\ WantedMode(last.w.area) = "none"
    /\ pending[last.w.area].mode = "none"
    /\ dev[last.w.area].state = "auto"

(* -------------------------- mode re-verification ---------------------- *)
\* Thermostats operated by hand between passes: the houses with a switch in heat
\* or cool, the thermostat found in the mode; the timer runs passes while devices
\* are operated by hand, the host carries out the commands and time goes by.
NextVerify ==
    \/ Tick
    \/ \E k \in 1..Len(tasks) : LoopStep(k)
    \/ \E a \in AreaIds, st \in ClimateStates \cup SwitchStates : DeviceChange(a, st)
    \/ \E a \in AreaIds : Deliver(a)
    \/ AdvanceTime

SpecVerify == InitSwitch /\ [][NextVerify]_vars

\* The thermostat of the area a is one a control pass has to force: of an area the
\* pass handles, a mode can be selected for it, and it reports another one.
ModeDue(a) ==
    /\ areas[a].typ = ACTUATOR_CLIMATE
    /\ Handled(a)
    /\ WantedMode(a) # "none"
    /\ dev[a].state # WantedMode(a)

\* C21: in heat or cool and outside Suspend, a control pass goes by no included,
\* mode-supporting thermostat that reports another mode than the one that can be
\* selected for it: the pass writes that mode to it when it comes to it, whether
\* the device was turned off by hand, the setpoint of the area is rate-limited or
\* its sensor cannot be read; with no such thermostat left it writes no mode.
C21_ModeReverified ==
    [][\A k \in 1..Len(tasks) :
          (LoopStep(k) /\ GoesOn(k) /\ ~is_suspended /\ hvac_mode \in {"heat", "cool"}) =>
              LET resumed == IF tasks[k].pc = "mode" THEN {tasks[k].i} ELSE {}
                  first == {a \in StartOf(k)..Len(areas) :
                               a \notin resumed /\ ModeDue(a)
                               /\ \A b \in StartOf(k)..(a - 1) : b \in resumed \/ ~ModeDue(b)}
              IN  /\ \A a \in GoneBy(k) \ resumed : ~ModeDue(a)
                  /\ \A a \in first :
                        /\ last'.w # NoWrite /\ last'.w.area <= a
                        /\ last'.w.area = a =>
                              last'.w = SetHvacModeCall(a, WantedMode(a))
                  /\ last'.w.op = "set_hvac_mode" =>
                        /\ last'.w.area \in first
                        /\ last'.w.mode = WantedMode(last'.w.area)]_vars

\* A control pass has written the mode of the house to a thermostat that was in
\* that mode and was turned off by hand, while the setpoint of its area is
\* rate-limited.
C21_CommandedBack ==
    /\ last.kind = "loop" /\ last.w.op = "set_hvac_mode"
    /\ last.w.mode = hvac_mode
    /\ dev[last.w.area].state = "off"
    /\ RateLimited(last.w.area)
    /\ pending[last.w.area].sp = NoneVal

(* ------------------------- direction and unwind ----------------------- *)
\* The room temperatures and unwind thresholds the target is computed for.
DirectionRooms == (DEFAULT_HOUSE_TARGET - 10)..(DEFAULT_HOUSE_TARGET + 10)
UnwindVals == {0, 3, DEFAULT_UNWIND_THRESHOLD}

\* The direction as stated: +1 in heat for a room colder than desired, -1 in cool
\* for a room warmer than desired, the opposite otherwise.
StatedDirection(room_temp, desired) ==
    IF hvac_mode = "cool" THEN (IF room_temp > desired THEN -1 ELSE 1)
    ELSE (IF room_temp < desired THEN 1 ELSE -1)

\* C22: the target _compute_banded_setpoint_target returns lies from center by
\* limit * frac in the stated direction (frac = 1 without unwind or from unwind
\* on, |e| / unwind below it), so in heat it is not below center for a room colder
\* than desired and not above it for a warmer one, in cool it is not above center
\* for a room warmer than desired and not below it for a colder one, and strictly
\* on that side when limit > 0.
C22_Direction ==
    \A a \in AreaIds, r \in DirectionRooms, u \in UnwindVals :
        LET d == DesiredRoomForArea(a)
            c == Center(a)
            q == ComputeBandedSetpointTarget(r, d, c, Limit, u)
            frac == IF u <= 0 \/ Abs(r - d) >= u THEN 1 ELSE Abs(r - d)
            off == q[1] - c * q[2]
        IN  /\ q[2] > 0
            /\ off = StatedDirection(r, d) * Limit * frac
            /\ (hvac_mode = "heat" /\ r < d) => (off >= 0 /\ (Limit > 0 => off > 0))
            /\ (hvac_mode = "heat" /\ r > d) => (off <= 0 /\ (Limit > 0 => off < 0))
            /\ (hvac_mode = "cool" /\ r > d) => (off <= 0 /\ (Limit > 0 => off < 0))
            /\ (hvac_mode = "cool" /\ r < d) => (off >= 0 /\ (Limit > 0 => off > 0))

\* In cool, with the room warmer than desired, a control pass nudges the setpoint
\* down toward a target below center.
C22_CoolDrivesDown ==
    \E k \in Nudging :
        /\ hvac_mode = "cool"
        /\ sensor[tasks[k].i] > DesiredRoomForArea(tasks[k].i)
        /\ tasks[k].loc < Center(tasks[k].i)
        /\ last.kind = "loop" /\ last.w.op \in SetpointOps /\ last.w.area = tasks[k].i
        /\ last.w.val < Reported(tasks[k].i)

\* The setpoint areas, and the room temperature next to r on the way to d.
SetpointAreas == {a \in AreaIds : areas[a].typ \in {ACTUATOR_CLIMATE, ACTUATOR_NUMBER}}
Closer(r, d) == IF r > d THEN r - 1 ELSE IF r < d THEN r + 1 ELSE r

\* The target of the area a for the room temperature r under the unwind u, and
\* what the unwind makes of it: the target for the next smaller error on the same
\* side of desired is not farther from center.
UnwindTarget(a, r, u) == BandedTarget(a, r, DesiredRoomForArea(a), Limit, u)
Unwinds(a, r, u) ==
    Abs(UnwindTarget(a, Closer(r, DesiredRoomForArea(a)), u) - Center(a))
        <= Abs(UnwindTarget(a, r, u) - Center(a))

\* C23 as stated: from the unwind threshold on the target is the edge of the band
\* [max(center - limit, min), min(center + limit, max)] in the driving direction,
\* at room = desired it is center rounded to step, and in between its distance
\* from center does not decrease with the error.
C23_UnwindShapeAsStated ==
    \A a \in SetpointAreas, r \in DirectionRooms, u \in UnwindVals \ {0} :
        LET d == DesiredRoomForArea(a)
        IN  /\ Abs(r - d) >= u =>
                  UnwindTarget(a, r, u) = IF StatedDirection(r, d) = 1 THEN StatedHi(a)
                                          ELSE StatedLo(a)
            /\ r = d => UnwindTarget(a, r, u) = RoundToStep(Center(a), areas[a].step)
            /\ Unwinds(a, r, u)

\* C23: with unwind > 0, from the unwind threshold on the target is the edge, in
\* the driving direction, of the band clamped to the bounds of the device, rounded
\* to step; at room = desired it is center clamped to the bounds of the device and
\* rounded to step; in between, its distance from center does not decrease with
\* the error; and the target a control pass nudges toward is that target.
C23_UnwindShape ==
    /\ \A a \in SetpointAreas, r \in DirectionRooms, u \in UnwindVals \ {0} :
          LET d == DesiredRoomForArea(a)
          IN  /\ Abs(r - d) >= u =>
                    UnwindTarget(a, r, u) =
                        RoundToStep(IF StatedDirection(r, d) = 1 THEN BandHi(a) ELSE BandLo(a),
                                    areas[a].step)
              /\ r = d => UnwindTarget(a, r, u) = CenterSp(a, d)
              /\ Unwinds(a, r, u)
    /\ \A k \in Nudging : tasks[k].loc = UnwindTarget(tasks[k].i, sensor[tasks[k].i], Unwind)

\* Scenario A: heat, house_target 21, bias 0, step 0.5, limit 3, unwind 2, bounds
\* [16, 30], room 19: a control pass nudges toward 24.0.
C23_ScenarioA ==
    \E k \in Nudging :
        LET a == tasks[k].i
        IN  /\ hvac_mode = "heat" /\ house_target = 84 /\ ~AreaInActiveZone(a)
            /\ areas[a].bias = 0 /\ areas[a].step = 2
            /\ areas[a].min_setpoint = 64 /\ areas[a].max_setpoint = 120
            /\ Limit = 12 /\ Unwind = 8
            /\ sensor[a] = 76
            /\ tasks[k].loc = 96

(* ----------------------------- options flow --------------------------- *)
\* The areas of the house in the host's registry, and the custom zones kept.
MaxAreas == 3
MaxCustomZones == 2

HaAreaIds == 1..MaxAreas

\* An area as add_area_config stores it, with a thermostat: its id (the uuid of an
\* area is modelled by the id of its area in the host, which is configured once
\* at most) and what it supports.
FlowArea(h, sh, sc) ==
    [id |-> h, typ |-> ACTUATOR_CLIMATE, supports_heat |-> sh, supports_cool |-> sc,
     min_setpoint |-> DEFAULT_MIN_SETPOINT, max_setpoint |-> DEFAULT_MAX_SETPOINT,
     step |-> DEFAULT_STEP, bias |-> 0, gain_num |-> GainDen, included |-> TRUE]

\* The ids of the configured areas A.
ConfiguredIds(A) == {A[i].id : i \in 1..Len(A)}

\* _zone_key: tuple(sorted(set(area_ids))), a sorted tuple without repetition,
\* modelled by the set of its elements.
ZoneKey(area_ids) == {area_ids[i] : i \in 1..Len(area_ids)}

\* uuid.uuid4().hex[:8] for a zone: an id no stored zone has.
FreshZoneId(Z) ==
    CHOOSE n \in 1..(Len(Z) + 1) :
        /\ \A k \in 1..Len(Z) : Z[k].id # n
        /\ \A m \in 1..(n - 1) : \E k \in 1..Len(Z) : Z[k].id = m

\* The loop of _ensure_builtin_zones over sorted(area_ids): a built-in zone is
\* appended for each area of S.
RECURSIVE AddBuiltinZones(_, _)
AddBuiltinZones(Z, S) ==
    IF S = {} THEN Z
    ELSE LET aid == CHOOSE x \in S : \A y \in S : x <= y
         IN  AddBuiltinZones(Append(Z, BuiltinZone(FreshZoneId(Z), aid)), S \ {aid})

\* A maintenance that adds the built-in zones that are missing and removes none.
EnsureBuiltinZonesAdding(A, Z) ==
    LET area_ids == ConfiguredIds(A)
        existing_builtin ==
            {Z[k].tied_area_id : k \in {j \in 1..Len(Z) : Z[j].builtin /\ Z[j].tied_area_id # 0}}
    IN  AddBuiltinZones(Z, area_ids \ existing_builtin)

\* _ensure_builtin_zones on the areas A and the zones Z: the zones it stores.
EnsureBuiltinZones(A, Z) ==
    LET area_ids == ConfiguredIds(A)
        existing_builtin ==
            {Z[k].tied_area_id : k \in {j \in 1..Len(Z) : Z[j].builtin /\ Z[j].tied_area_id # 0}}
        kept == SelectSeq(Z, LAMBDA z : ~(z.builtin /\ z.tied_area_id # 0
                                            /\ z.tied_area_id \notin area_ids))
    IN  AddBuiltinZones(kept, area_ids \ existing_builtin)

\* _zone_membership_custom: the custom zones of Z that list the area aid.
ZoneMembershipCustom(Z, aid) ==
    {k \in 1..Len(Z) : ~Z[k].builtin /\ aid \in Z[k].area_ids}

\* async_step_init: the zones of the flow's copy of the options.
FlowStart == EnsureBuiltinZones(areas, zones)

\* The lists the area selector of a zone form returns: configured areas in any
\* order, none twice.
Picks ==
    {p \in UNION {[1..n -> ConfiguredIds(areas)] : n \in 0..Len(areas)} :
        \A i, j \in DOMAIN p : i # j => p[i] # p[j]}

\* What the forms of an area are given for supports_heat and supports_cool: a
\* thermostat that heats, with or without cooling, and the choice of neither.
FlowSupports == {<<TRUE, TRUE>>, <<TRUE, FALSE>>, <<FALSE, FALSE>>}

\* A step of the flow that shows its form again with an error stores nothing.
Rejected ==
    /\ last' = Called("rejected")
    /\ UNCHANGED <<areas, zones, sensor, dev, pending>>

flowframe == <<options, hvac_mode, house_target, current_temperature, runtime, running,
               phase, saved, tasks, now, suspended_from>>

\* async_step_add_area .. async_step_add_area_config
FlowAddArea(h, sh, sc) ==
    /\ IF h \in ConfiguredIds(areas) \/ (~sh /\ ~sc) THEN Rejected
       ELSE /\ areas' = Append(areas, FlowArea(h, sh, sc))
            /\ zones' = EnsureBuiltinZones(areas', FlowStart)
            /\ sensor' = Append(sensor, DEFAULT_HOUSE_TARGET)
            /\ dev' = Append(dev, InitDev(ACTUATOR_CLIMATE, {"off", "heat", "cool"}, "off"))
            /\ pending' = Append(pending, NoCmd)
            /\ last' = Called("add_area")
    /\ UNCHANGED flowframe

\* async_step_pick_area_to_edit, async_step_edit_area
FlowEditArea(i, sh, sc) ==
    /\ i \in 1..Len(areas)
    /\ IF ~sh /\ ~sc THEN Rejected
       ELSE /\ areas' = [areas EXCEPT ![i].supports_heat = sh, ![i].supports_cool = sc]
            /\ zones' = FlowStart
            /\ last' = Called("edit_area")
            /\ UNCHANGED <<sensor, dev, pending>>
    /\ UNCHANGED flowframe

\* async_step_remove_area
FlowRemoveArea(i) ==
    /\ i \in 1..Len(areas)
    /\ IF ZoneMembershipCustom(FlowStart, areas[i].id) # {} THEN Rejected
       ELSE /\ areas' = Remove(areas, i)
            /\ zones' = EnsureBuiltinZones(areas',
                            SelectSeq(FlowStart,
                                      LAMBDA z : ~(z.builtin /\ z.tied_area_id = areas[i].id)))
            /\ sensor' = Remove(sensor, i)
            /\ dev' = Remove(dev, i)
            /\ pending' = Remove(pending, i)
            /\ last' = Called("remove_area")
    /\ UNCHANGED flowframe

\* async_step_add_zone_pick_areas, async_step_add_zone_confirm
FlowAddZone(picked) ==
    /\ Cardinality({k \in 1..Len(zones) : ~zones[k].builtin}) < MaxCustomZones
    /\ IF \/ Len(areas) < 3
          \/ Len(picked) < 2
          \/ Len(picked) >= Len(areas)
          \/ \E k \in 1..Len(FlowStart) : FlowStart[k].area_ids = ZoneKey(picked)
       THEN Rejected
       ELSE /\ zones' = Append(FlowStart, CustomZone(FreshZoneId(FlowStart), ZoneKey(picked)))
            /\ last' = Called("add_zone")
            /\ UNCHANGED <<areas, sensor, dev, pending>>
    /\ UNCHANGED flowframe

\* async_step_pick_zone_to_edit, async_step_edit_zone
FlowEditZone(k, picked) ==
    /\ k \in 1..Len(FlowStart)
    /\ ~FlowStart[k].builtin
    /\ IF \/ Len(picked) < 2
          \/ Len(picked) >= Len(areas)
          \/ \E j \in 1..Len(FlowStart) :
                FlowStart[j].id # FlowStart[k].id /\ FlowStart[j].area_ids = ZoneKey(picked)
       THEN Rejected
       ELSE /\ zones' = [FlowStart EXCEPT ![k].area_ids = ZoneKey(picked)]
            /\ last' = Called("edit_zone")
            /\ UNCHANGED <<areas, sensor, dev, pending>>
    /\ UNCHANGED flowframe

\* async_step_remove_zone
FlowRemoveZone(k) ==
    /\ k \in 1..Len(FlowStart)
    /\ ~FlowStart[k].builtin
    /\ zones' = SelectSeq(FlowStart, LAMBDA z : z.id # FlowStart[k].id)
    /\ last' = Called("remove_zone")
    /\ UNCHANGED <<areas, sensor, dev, pending>>
    /\ UNCHANGED flowframe

\* A fresh config entry (async_step_onboarding stores no options) under the
\* operations of its options flow, one flow at a time.
InitFlow == Fresh(<< >>, << >>, DEFAULT_HOUSE_TARGET, {"off", "heat", "cool"}, "off")

NextFlow ==
    \/ \E h \in HaAreaIds, s \in FlowSupports : FlowAddArea(h, s[1], s[2])
    \/ \E i \in 1..Len(areas), s \in FlowSupports : FlowEditArea(i, s[1], s[2])
    \/ \E i \in 1..Len(areas) : FlowRemoveArea(i)
    \/ \E picked \in Picks : FlowAddZone(picked)
    \/ \E k \in 1..Len(zones), picked \in Picks : FlowEditZone(k, picked)
    \/ \E k \in 1..Len(zones) : FlowRemoveZone(k)

SpecFlow == InitFlow /\ [][NextFlow]_vars

\* C24: every custom zone has at least two members and fewer members than there
\* are configured areas and lists configured areas only, and no two zones have the
\* same members.
C24_CustomZoneInvariant ==
    /\ \A k \in 1..Len(zones) :
          ~zones[k].builtin =>
              /\ Cardinality(zones[k].area_ids) >= 2
              /\ Cardinality(zones[k].area_ids) < Len(areas)
              /\ zones[k].area_ids \subseteq ConfiguredIds(areas)
    /\ \A j, k \in 1..Len(zones) : j # k => zones[j].area_ids # zones[k].area_ids

\* The elements of s at the indices I, in the order of s.
SubList(s, I) ==
    LET F[n \in 0..Len(s)] ==
            IF n = 0 THEN << >>
            ELSE IF n \in I THEN Append(F[n - 1], s[n]) ELSE F[n - 1]
    IN  F[Len(s)]

\* The built-in zones of Z tied to the area aid.
BuiltinOf(Z, aid) == {k \in 1..Len(Z) : Z[k].builtin /\ Z[k].tied_area_id = aid}

\* The custom zones of Z, in their order.
CustomOf(Z) == SelectSeq(Z, LAMBDA z : ~z.builtin)

\* Z holds exactly one built-in zone for each area of A and none for another.
BuiltinExact(A, Z) ==
    /\ \A aid \in ConfiguredIds(A) : Cardinality(BuiltinOf(Z, aid)) = 1
    /\ \A k \in 1..Len(Z) : Z[k].builtin => Z[k].tied_area_id \in ConfiguredIds(A)

\* C25: on every list of areas and every list of zones taken out of the stored
\* ones, the zones after _ensure_builtin_zones hold exactly one built-in zone for
\* each configured area and none for another area, the custom zones are the ones
\* given, and a second run changes nothing; the stored zones hold one built-in
\* zone for each stored area.
C25_EnsureBuiltinZones ==
    /\ \A I \in SUBSET (1..Len(areas)), J \in SUBSET (1..Len(zones)) :
          \E A \in {SubList(areas, I)}, Z \in {SubList(zones, J)} :
            \E E \in {EnsureBuiltinZones(A, Z)} :
                /\ BuiltinExact(A, E)
                /\ CustomOf(E) = CustomOf(Z)
                /\ EnsureBuiltinZones(A, E) = E
    /\ BuiltinExact(areas, zones)

\* An area was added to a house with a custom zone: its built-in zone was created
\* behind the custom one.
C25_BuiltinCreated ==
    /\ last.ev = "add_area"
    /\ \E j, k \in 1..Len(zones) :
          /\ j < k
          /\ ~zones[j].builtin
          /\ zones[k].builtin
          /\ zones[k].tied_area_id = areas[Len(areas)].id

(* ---------------------------- zone selection -------------------------- *)
\* The zone a preset label selects (async_set_active_zone_by_preset_label).
SelectedZone(label) ==
    IF label = "none" THEN NullZone
    ELSE IF label = "Suspend" THEN SUSPEND_ZONE_ID
    ELSE PresetLabelToZoneId(label)

\* last_non_suspend_zone_id after the selection of z, as stated.
StatedLastNonSuspend(z) ==
    IF z = NullZone THEN NullZone
    ELSE IF z # SUSPEND_ZONE_ID THEN z
    ELSE IF IsRealZone(options.active_zone_id) THEN options.active_zone_id
    ELSE options.last_non_suspend_zone_id

\* C26: a selection of the zone z by async_set_active_zone leaves active_zone_id =
\* z and last_non_suspend_zone_id null for null, z for a real zone, the zone left
\* when Suspend is selected from a real zone and its old value when Suspend is
\* selected from null or Suspend; the selection of Suspend writes to no actuator
\* and starts no pass, and every other selection starts one immediate-apply pass.
C26_ZoneSelection ==
    [][\A label \in PresetLabels :
          (EntitySetPresetMode(label) /\ ~IgnoredWhileSuspended("preset_mode", label)) =>
              \E z \in {SelectedZone(label)} :
                  /\ options'.active_zone_id = z
                  /\ options'.last_non_suspend_zone_id = StatedLastNonSuspend(z)
                  /\ pending' = pending
                  /\ z = SUSPEND_ZONE_ID => tasks' = tasks
                  /\ z # SUSPEND_ZONE_ID => tasks' = Append(tasks, NewTask("apply"))]_vars

\* Suspend was selected while the zone z1 was active, and z1 is remembered.
C26_FrozenZone ==
    /\ phase = "ready"
    /\ options.active_zone_id = SUSPEND_ZONE_ID
    /\ suspended_from = "z1"
    /\ options.last_non_suspend_zone_id = "z1"
    /\ \A k \in 1..Len(tasks) : tasks[k].kind # "apply"

(* ----------------------------- convergence ---------------------------- *)
\* The timer fires when the pass before it is over and the host has run its
\* service calls, min_change_seconds (and one scan interval at least) after the
\* tick before. The passes compare differences of times only: past MaxTime the
\* clock stands and the timestamps move back instead.
TimerTick ==
    /\ tasks = << >>
    /\ \A a \in AreaIds : pending[a] = NoCmd
    /\ tasks' = << NewTask("loop") >>
    /\ \E d \in {Max2(1, options.min_change_seconds)} :
          IF now + d <= MaxTime
          THEN now' = now + d /\ runtime' = runtime
          ELSE /\ now' = now
               /\ runtime' = [a \in DOMAIN runtime |->
                                [runtime[a] EXCEPT !.last_change =
                                    IF @ = NoneVal THEN NoneVal ELSE Max2(0, @ - d)]]
    /\ last' = NoStep
    /\ UNCHANGED <<suspended_from, conf, world, options, hvac_mode, house_target,
                   current_temperature, running, phase, saved, pending>>

\* A house of one setpoint area with the default step and bounds, in heat or cool,
\* with a gain of 0.5, 1 or 1.5, the room at, near and far from the desired
\* temperature or unread, the actuator reporting any of a few setpoints.
InitConverge ==
    \E typ \in {ACTUATOR_CLIMATE, ACTUATOR_NUMBER}, m \in {"heat", "cool"},
       gain_num \in GainVals, limit \in LimitVals, mcs \in MinChangeVals,
       room \in RoomVals, sp \in SetpointVals :
        Ready(<< Area(typ, TRUE, TRUE, 0, gain_num, TRUE) >>,
              << BuiltinZone("z1", 1) >>,
              [DefaultOptions EXCEPT !.setpoint_limit = limit, !.min_change_seconds = mcs],
              m,
              << room >>,
              << [InitDev(typ, {"off", "heat", "cool"}, m) EXCEPT !.temperature = sp] >>)

NextConverge ==
    \/ TimerTick
    \/ \E k \in 1..Len(tasks) : LoopStep(k)
    \/ \E a \in AreaIds : Deliver(a)

\* The banded controller left to itself: the sensors keep their readings, the
\* timer keeps firing, every started pass runs on and the host runs every service
\* call it accepted.
SpecConverge ==
    /\ InitConverge
    /\ [][NextConverge]_vars
    /\ WF_vars(TimerTick)
    /\ WF_vars(\E k \in 1..Len(tasks) : LoopStep(k))
    /\ WF_vars(\E a \in AreaIds : Deliver(a))

\* The setpoint areas whose sensor is read.
Converging == {a \in SetpointAreas : sensor[a] # NoneVal}

\* Area a is at its target and nothing is on its way to its actuator.
AtTarget(a) ==
    /\ pending[a] = NoCmd
    /\ dev[a].temperature = UnwindTarget(a, sensor[a], Unwind)

\* C27 as stated: the setpoint of every setpoint area eventually equals the
\* computed target and stays there, no write following.
C27_ConvergesAsStated == <>[](\A a \in Converging : AtTarget(a))

\* The next nudge of area a from the setpoint its actuator reports.
NextNudgeOf(a) ==
    NudgeStep(a, dev[a].temperature, UnwindTarget(a, sensor[a], Unwind))

\* The room of area a is within the deadband of its desired temperature.
InDeadband(a) == Abs(sensor[a] - DesiredRoomForArea(a)) <= options.deadband

\* Area a has come to rest: nothing is on its way to its actuator, and its
\* setpoint is the target, or the room is within the deadband and the next nudge
\* would land on the rounded center, or the gain is below 1 and the next nudge
\* rounds back to the setpoint.
AtRest(a) ==
    /\ pending[a] = NoCmd
    /\ dev[a].temperature # NoneVal
    /\ \/ AtTarget(a)
       \/ InDeadband(a) /\ NextNudgeOf(a) = CenterSp(a, DesiredRoomForArea(a))
       \/ areas[a].gain_num < GainDen /\ NextNudgeOf(a) = dev[a].temperature

\* C27: with the sensors held, every write reflected before the next pass and the
\* ticks min_change_seconds apart, every setpoint area eventually comes to rest
\* for good, no setpoint write following; it rests at the computed target when
\* the gain is 1 or more and the room error is outside the deadband.
C27_Converges ==
    <>[](\A a \in Converging :
            /\ AtRest(a)
            /\ (areas[a].gain_num >= GainDen /\ ~InDeadband(a)) => AtTarget(a))

\* A room two degrees short of its desired temperature: the setpoint has been
\* nudged up to the edge of the band and rests there.
C27_Settled ==
    \E a \in Converging :
        /\ hvac_mode = "heat"
        /\ sensor[a] = DEFAULT_HOUSE_TARGET - DEFAULT_UNWIND_THRESHOLD
        /\ options.setpoint_limit = DEFAULT_SETPOINT_LIMIT
        /\ AtTarget(a)
        /\ dev[a].temperature = DEFAULT_HOUSE_TARGET + DEFAULT_SETPOINT_LIMIT
        /\ runtime[a].last_change # NoneVal
        /\ tasks = << >>

(* ------------------------------ rate limit ---------------------------- *)
\* The task k is suspended at a setpoint write: its next step is the return of
\* the service call, where the write is committed.
Commits(k) ==
    /\ tasks[k].pc = "temp"
    /\ LoopStep(k) \/ ApplyStep(k)

\* C28: a control pass writes a setpoint to an area only when last_change of the
\* area is unset or min_change_seconds old; every setpoint write a control pass
\* or an immediate-apply pass commits sets last_change of its area to the time
\* of the write; and last_change changes at no other step unless a mode change
\* clears it.
C28_RateLimit ==
    [][/\ \A k \in 1..Len(tasks) :
            (LoopStep(k) /\ last'.kind = "loop" /\ last'.w.op \in SetpointOps)
                => ~RateLimited(last'.w.area)
       /\ \A k \in 1..Len(tasks) :
            Commits(k) => runtime'[tasks[k].i].last_change = now
       /\ \A a \in AreaIds :
            runtime'[a].last_change # runtime[a].last_change =>
                \/ \E k \in 1..Len(tasks) : Commits(k) /\ tasks[k].i = a
                \/ last'.ev = "set_hvac_mode" /\ runtime'[a].last_change = NoneVal]_vars

(* ----------------------------- hysteresis ----------------------------- *)
\* The host reports another state of a switch: on, off, unavailable, or no state
\* at all.
SwitchReport(a, st) ==
    /\ areas[a].typ = ACTUATOR_SWITCH
    /\ dev[a].state # st
    /\ dev' = [dev EXCEPT ![a].state = st]
    /\ last' = NoStep
    /\ UNCHANGED <<suspended_from, conf, sensor, options, hvac_mode, house_target,
                   current_temperature, runtime, running, phase, saved, tasks, pending, now>>

\* Switches under both passes, the room of a switch just below, at, and just above
\* the edges of the deadband around the target, the switch in any state the host
\* reports, whatever was commanded.
NextHyst ==
    \/ EntitySetTemperature(DEFAULT_HOUSE_TARGET)
    \/ Tick
    \/ \E k \in 1..Len(tasks) : LoopStep(k)
    \/ \E k \in 1..Len(tasks) : ApplyStep(k)
    \/ \E a \in AreaIds, e \in {-1, 0, 1} :
          /\ areas[a].typ = ACTUATOR_SWITCH
          /\ \/ SensorChange(a, house_target - options.deadband + e)
             \/ SensorChange(a, house_target + options.deadband + e)
    \/ \E a \in AreaIds, st \in {"on", "off", "unavailable", "missing"} : SwitchReport(a, st)

SpecHyst == InitSwitch /\ [][NextHyst]_vars

\* The state of the switch of area a is off, is on; any other state, and none,
\* is unreadable.
ReadsOff(a) == dev[a].state = "off"
ReadsOn(a) == dev[a].state = "on"

\* The room of area a is below, above the deadband around its desired temperature.
BelowBand(a) == sensor[a] < DesiredRoomForArea(a) - options.deadband
AboveBand(a) == sensor[a] > DesiredRoomForArea(a) + options.deadband

\* C29: a pass issues turn_on to a switch area it handles exactly when the switch
\* reads off and the room is below the deadband in heat, above it in cool, and
\* turn_off exactly when the switch reads on and the room is above the deadband in
\* heat, below it in cool; with the room within the deadband, the switch in the
\* wanted state or its state unreadable it issues nothing to the switch.
C29_SwitchHysteresis ==
    [][\A k \in 1..Len(tasks) :
          (GoesOn(k) /\ (LoopStep(k) \/ ApplyStep(k))) =>
              \E start \in {IF tasks[k].pc = "new" THEN 1 ELSE tasks[k].i + 1},
                 stop \in {IF last'.ev = "end" THEN Len(areas) + 1 ELSE last'.w.area} :
                  \A a \in start..Min2(stop, Len(areas)) :
                      SwitchHandled(a) =>
                          \E issued \in {IF a = stop THEN last'.w.op ELSE "none"} :
                              /\ issued \in {"turn_on", "turn_off", "none"}
                              /\ issued = "turn_on" <=>
                                    /\ ReadsOff(a)
                                    /\ IF hvac_mode = "heat" THEN BelowBand(a)
                                       ELSE AboveBand(a)
                              /\ issued = "turn_off" <=>
                                    /\ ReadsOn(a)
                                    /\ IF hvac_mode = "heat" THEN AboveBand(a)
                                       ELSE BelowBand(a)
                              /\ (~BelowBand(a) /\ ~AboveBand(a)) => issued = "none"
                              /\ (~ReadsOn(a) /\ ~ReadsOff(a)) => issued = "none"]_vars

(* ------------------------- control pass in off ------------------------ *)
\* Off with a zone selected: the mode and preset commands and devices operated by
\* hand while the timer runs passes.
NextWatch ==
    \/ Setup
    \/ Restore
    \/ \E m \in {"off", "heat", "cool"} : EntitySetHvacMode(m)
    \/ \E label \in PresetLabels : EntitySetPresetMode(label)
    \/ \E a \in AreaIds, st \in ClimateStates \cup SwitchStates : DeviceChange(a, st)
    \/ Passes

SpecWatch == Init /\ [][NextWatch]_vars

\* C30: a control pass that finds hvac_mode off issues no write and starts no
\* pass; it leaves house_target, hvac_mode, the runtime of every area with its
\* last_change, the configuration and the devices as they were, and the options
\* too, or it leaves them as async_set_active_zone(SUSPEND) does: active_zone_id
\* Suspend, last_non_suspend_zone_id the zone left if it was a real one, and
\* every other option as it was.
C30_OffPassFrame ==
    [][\A k \in 1..Len(tasks) :
          (LoopStep(k) /\ tasks[k].pc = "new" /\ hvac_mode = "off") =>
              /\ pending' = pending
              /\ last'.w = NoWrite
              /\ tasks' = Remove(tasks, k)
              /\ UNCHANGED <<house_target, hvac_mode, runtime, conf, world, phase, saved, now>>
              /\ \/ options' = options
                 \/ /\ ~is_suspended
                    /\ options' =
                          [options EXCEPT
                              !.active_zone_id = SUSPEND_ZONE_ID,
                              !.last_non_suspend_zone_id =
                                  IF IsRealZone(options.active_zone_id)
                                  THEN options.active_zone_id ELSE @]]_vars

\* In off, with a zone selected and a setpoint written earlier, a control pass has
\* found an actuator on and entered Suspend.
C30_SuspendedByPass ==
    /\ hvac_mode = "off"
    /\ last.kind = "loop" /\ last.ev = "auto_suspend"
    /\ is_suspended
    /\ suspended_from = "z1"
    /\ options.last_non_suspend_zone_id = "z1"
    /\ \E a \in AreaIds : runtime[a].last_change # NoneVal


(* ------------------------- aggregate temperature ---------------------- *)
\* The whole house: the mode and preset commands, the include switches and
\* sensors that come and go while the timer runs passes, some of whose service
\* calls raise.
NextHouse ==
    \/ Setup
    \/ Restore
    \/ \E m \in {"off", "heat", "cool"} : EntitySetHvacMode(m)
    \/ \E label \in {"none", "Suspend"} : EntitySetPresetMode(label)
    \/ \E a \in AreaIds, b \in BOOLEAN : IncludeSwitch(a, b)
    \/ \E a \in AreaIds, v \in SensorVals : SensorChange(a, v)
    \/ Passes
    \/ \E k \in 1..Len(tasks) : CallRaises(k)

SpecHouse ==
    /\ Fresh(HouseNumberAreas, HouseZones, DEFAULT_HOUSE_TARGET - 8, {}, "off")
    /\ [][NextHouse]_vars

\* The areas the aggregate is stated over, and the readable ones among them.
StatedTempAreas ==
    IF hvac_mode = "heat" THEN {a \in AreaIds : runtime[a].included /\ areas[a].supports_heat}
    ELSE IF hvac_mode = "cool"
    THEN {a \in AreaIds : runtime[a].included /\ areas[a].supports_cool}
    ELSE {a \in AreaIds : runtime[a].included}

StatedReadable == {a \in StatedTempAreas : sensor[a] # NoneVal}

\* A control pass enters its body: it is not dropped by the re-entrancy guard.
EntersBody(k) == tasks[k].kind = "loop" /\ tasks[k].pc = "new" /\ ~running

\* C31: every control pass that enters its body, the ones that return early in
\* off or in Suspend and the ones that raise included, leaves current_temperature
\* the mean (sum and count) of the readable sensors of the included areas that
\* support the mode in heat and cool, of all included areas in off, and absent
\* exactly when none of them is readable; the rest of the pass leaves it alone.
C31_AggregateTemperature ==
    [][\A k \in 1..Len(tasks) :
          /\ ((LoopStep(k) \/ CallRaises(k)) /\ EntersBody(k)) =>
                /\ current_temperature'[2] = Cardinality(StatedReadable)
                /\ current_temperature'[1] = SumTemps(StatedReadable)
                /\ current_temperature' = <<0, 0>> <=> StatedReadable = {}
                /\ \A a \in AreaIds : ~runtime[a].included => a \notin StatedReadable
          /\ ((LoopStep(k) \/ CallRaises(k)) /\ tasks[k].kind = "loop" /\ ~EntersBody(k)) =>
                current_temperature' = current_temperature]_vars

\* In cool a pass has averaged the one readable sensor of the areas that cool,
\* leaving out an included area with a readable sensor that only heats.
C31_ModeFiltered ==
    /\ last.kind = "loop" /\ last.ev = "end" /\ last.from = 0
    /\ hvac_mode = "cool"
    /\ current_temperature[2] = 1
    /\ \E a \in AreaIds :
          runtime[a].included /\ sensor[a] # NoneVal /\ ~areas[a].supports_cool


(* --------------------------- writes while off ------------------------- *)
\* A write that sets a device going: turn_on, a setpoint, a mode other than off.
Activating(w) ==
    \/ w.op \in {"turn_on", "set_temperature", "set_value"}
    \/ w.op = "set_hvac_mode" /\ w.mode # "off"

\* C32: while hvac_mode is off no step of any pass issues a turn_on, a setpoint
\* write or a mode write to a mode other than off, under every interleaving of
\* the operator's commands with the passes.
C32_NoActivatingWriteInOff == hvac_mode = "off" => ~Activating(last.w)


(* ------------------------- restore while suspended -------------------- *)
\* C33: restoring the state the entity publishes while Suspended (state off,
\* preset Suspend) leaves active_zone_id Suspend and last_non_suspend_zone_id as
\* it was, and creates no task that writes to an actuator.
C33_RestorePreservesSuspend ==
    [][(Restore /\ saved.state = "off" /\ saved.preset_mode = "Suspend") =>
          /\ options'.active_zone_id = SUSPEND_ZONE_ID
          /\ options'.last_non_suspend_zone_id = options.last_non_suspend_zone_id
          /\ tasks' = tasks]_vars


(* --------------------------- turn-off after off ----------------------- *)
\* C34: a turn-off-all task issues its turn_off and set_hvac_mode(off) commands
\* only while hvac_mode is off.
C34_TurnOffOnlyInOff == (last.kind = "off" /\ last.w # NoWrite) => hvac_mode = "off"


(* --------------------------- settling after off ----------------------- *)
\* A house that nobody but the coordinator operates: the mode commands and the
\* passes, every accepted service call reflected by its device in the end.
NextSettle ==
    \/ \E m \in {"off", "heat", "cool"} : EntitySetHvacMode(m)
    \/ Passes
    \/ \E a \in AreaIds : Deliver(a)

SpecSettle == InitSwitch /\ [][NextSettle]_vars

\* C35: with every thermostat offering off and no device operated by hand, no
\* control pass moves active_zone_id to Suspend, in particular none that runs
\* after the turn-off commands were sent and before the devices report off.
C35_NoSelfInflictedSuspend ==
    [][\A k \in 1..Len(tasks) : LoopStep(k) => (is_suspended' => is_suspended)]_vars


(* --------------------------- heat to cool and back -------------------- *)
\* Heat and cool taken in turns in a house of two actuators whose switch starts
\* off where its area does not support the mode; every accepted service call is
\* reflected by its device in the end.
InitSwap ==
    /\ InitSwitch
    /\ \A a \in AreaIds : (areas[a].typ = ACTUATOR_SWITCH /\ ~AreaSupportsMode(a)) =>
                              dev[a].state = "off"

SpecSwap == InitSwap /\ [][NextMode]_vars

\* Nothing is in flight: no task is left and every accepted call was delivered.
Quiet == tasks = << >> /\ \A a \in AreaIds : pending[a] = NoCmd

\* The devices of included areas that do not support the mode and still run.
RunsInOtherMode ==
    {a \in AreaIds :
        /\ runtime[a].included /\ ~AreaSupportsMode(a)
        /\ \/ areas[a].typ = ACTUATOR_SWITCH /\ dev[a].state = "on"
           \/ areas[a].typ = ACTUATOR_CLIMATE /\ dev[a].state \notin {"off", "missing"}}

\* C36: after set_hvac_mode has changed the mode between heat and cool, every
\* included switch or thermostat whose area does not support the new mode is
\* commanded off: once the passes it started have ended and their calls are
\* delivered, no such device is running.
C36_OtherModeShutOff == (hvac_mode \in {"heat", "cool"} /\ Quiet) => RunsInOtherMode = {}


(* ----------------------------- device bounds -------------------------- *)
\* C37: every setpoint a pass writes lies within the area's min_setpoint and
\* max_setpoint and is a multiple of its step.
C37_WithinDeviceBounds ==
    last.w.op \in SetpointOps =>
        /\ areas[last.w.area].min_setpoint <= last.w.val
        /\ last.w.val <= areas[last.w.area].max_setpoint
        /\ last.w.val % areas[last.w.area].step = 0

(* ----------------------------- guard release ------------------------- *)
\* C38: _running is false whenever no control pass is inside its body; a pass
\* that leaves its body, at its end, at the early returns in off and in Suspend or
\* by an exception, leaves _running false; and a pass that starts while none is
\* inside its body is executed, not dropped.
C38_GuardRelease ==
    /\ [](InBody = {} => ~running)
    /\ [][\A k \in 1..Len(tasks) :
            /\ ((LoopStep(k) \/ CallRaises(k)) /\ tasks[k].kind = "loop"
                   /\ (EntersBody(k) \/ tasks[k].pc # "new")
                   /\ Len(tasks') < Len(tasks)) => ~running'
            /\ (LoopStep(k) /\ tasks[k].pc = "new" /\ InBody = {}) =>
                   last'.ev # "drop"]_vars

\* A service call of a control pass has raised: the pass is gone, _running is
\* false and the task of the next pass is waiting to start.
C38_ReleasedByRaise ==
    /\ last.kind = "loop" /\ last.ev = "raise"
    /\ InBody = {}
    /\ ~running
    /\ \E k \in 1..Len(tasks) : tasks[k].kind = "loop" /\ tasks[k].pc = "new"

====
